---- MODULE Spec2Model ----
(***************************************************************************)
(* Buildable-envelope and GFA estimation of src/utils.py, for one parcel   *)
(* (one row of gfa_plots) and the regulation tables linked to it.          *)
(*                                                                         *)
(* Numbers.  Areas are integers that are multiples of RatioScale; ratios   *)
(* (site coverage, plot ratio) are integers counted in 1/RatioScale, so    *)
(* plot_area * ratio is the integer (plot_area * r) \div RatioScale and    *)
(* storey_area / plot_area > ratio is storey_area * RatioScale >           *)
(* r * plot_area.  NaN and Inf are the two float markers of the code.      *)
(***************************************************************************)
EXTENDS Integers, Sequences, FiniteSets, TLC

VARIABLES
    pc,               \* stage of the run
    args,             \* arguments of a compute_part_gfa call
    part_gfa,         \* value returned by compute_part_gfa
    plot,             \* the parcel's row of gfa_plots: the columns read, not written
    dcp,              \* DevelopmentControlPlan rows linked to the parcel, in table order
    sbp,              \* StreetBlockPlan rows linked to the parcel, in table order
    road_cats,        \* road-category rows named by the linked DevelopmentControlPlans
    udg_edges,        \* urban-design-guideline setback per edge index of the parcel
    edge_setbacks,    \* column 'edge_setbacks': programme -> setback per edge
    footprints,       \* column 'footprints': programme -> footprint per setback level
    parts,            \* column 'parts': the parcel's parts
    storeys,          \* column 'storeys': programme -> allowed storeys per part
    gfa,              \* column 'gfa': programme -> estimated GFA
    min_rect,         \* a residential parcel's bounding-rectangle edges and their road overlaps
    edge_types,       \* columns min_rect_front_edge, _rear_edge, _side_edges, is_corner_plot
    height_regs,      \* HeightControlPlan and UrbanDesignGuideline rows linked to the parcel
    lha,              \* storeys of the LandedHousingArea rows linked to the parcel
    plots,            \* the parcel table as loaded: one row per parcel id
    gpr_runs,         \* the parcel table of each run of assign_gpr, as written so far
    neighbor_links,   \* the rows returned by get_neighbor_links: <<plots, context_plots>>
    regs              \* the type regulations, with the column 'applies_to' once linked

partVars == <<args, part_gfa>>
tableVars == <<plot, dcp, sbp, road_cats, udg_edges>>
columnVars == <<edge_setbacks, footprints, parts, storeys, gfa>>
classVars == <<min_rect, edge_types>>
batchVars == <<plots, gpr_runs, neighbor_links, regs>>
prepVars == <<min_rect, edge_types, height_regs, lha, plots, gpr_runs, neighbor_links, regs>>
vars == <<pc, args, part_gfa, plot, dcp, sbp, road_cats, udg_edges,
          edge_setbacks, footprints, parts, storeys, gfa, min_rect, edge_types,
          height_regs, lha, plots, gpr_runs, neighbor_links, regs>>

\* ---------------------------------------------------------------- bounds
RatioScale == 10
MaxStoreys == 3
MaxLevels == 3
MaxAreaUnits == 2
PlotCells == 2
MaxDcpRows == 1
NumEdges == 3
MaxSetback == 1
MaxSide == 2

\* ---------------------------------------------------------------- markers
NaN == -1
Inf == 1000
UnboundLocalError == -2
None == -3

Min(a, b) == IF b < a THEN b ELSE a

SetMax(S) == CHOOSE x \in S : \A y \in S : y <= x

\* a parcel row with no column filled (the row is not read)
NoArgs == [allowed_storeys |-> 0, footprint_areas |-> <<>>, plot_area |-> 0, site_coverage |-> 0]

NoPlot == [zone_residential |-> FALSE, allowed_residential_types |-> {}, gpr |-> NaN,
           geometry |-> {}, edges |-> 0,
           front_edges |-> {}, side_edges |-> {}, rear_edges |-> {},
           cat_1_edges |-> {}, cat_2_edges |-> {}, cat_3_5_edges |-> {},
           partywall |-> FALSE, partywall_edges |-> {}]

\* the edge classifier of set_residential_plot_properties has not run
NoMinRect == [length |-> <<>>, intersection |-> <<>>]

NoEdgeTypes == [min_rect_front_edge |-> NaN, min_rect_rear_edge |-> NaN,
                min_rect_side_edges |-> NaN, is_corner_plot |-> "nan"]

PrepIdle ==
    /\ min_rect = NoMinRect /\ edge_types = NoEdgeTypes
    /\ height_regs = <<>> /\ lha = <<>>
    /\ plots = <<>> /\ gpr_runs = <<>> /\ neighbor_links = {} /\ regs = <<>>

AreaValues(units) == {k * RatioScale : k \in 0..units}

RECURSIVE SeqsUpTo(_, _)
SeqsUpTo(S, n) ==
    IF n = 0 THEN {<<>>}
    ELSE LET shorter == SeqsUpTo(S, n - 1)
         IN shorter \cup {Append(s, x) : s \in {t \in shorter : Len(t) = n - 1}, x \in S}

\* ------------------------------------------------------- compute_part_gfa
\* lines 1354-1355: the storey's contribution, capped by site coverage
CappedAreaUncapped(storey_area, plot_area, site_coverage) == storey_area

CappedArea(storey_area, plot_area, site_coverage) ==
    IF site_coverage # NaN /\ storey_area * RatioScale > site_coverage * plot_area
    THEN (plot_area * site_coverage) \div RatioScale
    ELSE storey_area

\* lines 1349-1356: the loop over range(len(footprint_areas)); acc carries the
\* locals part_gfa and storey_area (unbound until a storey below the limit is seen)
RECURSIVE PartLoop(_, _, _, _, _, _)
PartLoop(storey, allowed_storeys, footprint_areas, plot_area, site_coverage, acc) ==
    IF storey >= Len(footprint_areas) THEN acc
    ELSE IF storey < allowed_storeys
         THEN LET storey_area == CappedArea(footprint_areas[storey + 1], plot_area, site_coverage)
              IN PartLoop(storey + 1, allowed_storeys, footprint_areas, plot_area, site_coverage,
                          [part_gfa |-> acc.part_gfa + storey_area, storey_area |-> storey_area])
         ELSE PartLoop(storey + 1, allowed_storeys, footprint_areas, plot_area, site_coverage, acc)

\* lines 1358-1359 with the operands of the subtraction exchanged
compute_part_gfa_swapped(allowed_storeys, footprint_areas, plot_area, site_coverage) ==
    LET r == PartLoop(0, allowed_storeys, footprint_areas, plot_area, site_coverage,
                      [part_gfa |-> 0, storey_area |-> UnboundLocalError])
    IN IF allowed_storeys > Len(footprint_areas)
       THEN IF r.storey_area = UnboundLocalError THEN UnboundLocalError
            ELSE r.part_gfa + r.storey_area * (Len(footprint_areas) - allowed_storeys)
       ELSE r.part_gfa

compute_part_gfa(allowed_storeys, footprint_areas, plot_area, site_coverage) ==
    LET r == PartLoop(0, allowed_storeys, footprint_areas, plot_area, site_coverage,
                      [part_gfa |-> 0, storey_area |-> UnboundLocalError])
    IN IF allowed_storeys > Len(footprint_areas)
       THEN IF r.storey_area = UnboundLocalError THEN UnboundLocalError
            ELSE r.part_gfa + r.storey_area * (allowed_storeys - Len(footprint_areas))
       ELSE r.part_gfa

\* ---------------------------------------------------------------- geometry
\* A geometry is a set of unit cells <<x, y>>; every cell has area RatioScale.
Rect(w, h) == (1..w) \X (1..h)

Area(g) == Cardinality(g) * RatioScale

\* --------------------------------------------------------- Python helpers
\* x < y on floats: False whenever an operand is NaN
Less(x, y) == x # NaN /\ y # NaN /\ x < y

\* the builtin min(values, default=...): the first value, replaced by each
\* later value that compares smaller
RECURSIVE PyMinFrom(_, _, _)
PyMinFrom(values, k, acc) ==
    IF k > Len(values) THEN acc
    ELSE PyMinFrom(values, k + 1, IF Less(values[k], acc) THEN values[k] ELSE acc)

PyMin(values, default) ==
    IF Len(values) = 0 THEN default ELSE PyMinFrom(values, 2, values[1])

RECURSIVE SumSeq(_)
SumSeq(values) == IF Len(values) = 0 THEN 0 ELSE values[1] + SumSeq(Tail(values))

Column(rows, name) == [k \in 1..Len(rows) |-> rows[k][name]]

DropNa(values) == SelectSeq(values, LAMBDA x : x # NaN)

\* ---------------------------------------------------- create_setback_area
\* A rectangular parcel Rect(w, h) has the four boundary edges of get_edges,
\* in ring order: 1 left, 2 top, 3 right, 4 bottom.
RectEdges == 4

Width(g) == Cardinality({c[1] : c \in g})

Height(g) == Cardinality({c[2] : c \in g})

\* line 1148: edge.buffer(-setback, single_sided=True, cap_style=3), the strip
\* of that width on the inner side of the edge, as far as it lies in the parcel
EdgeBuffer(edge, setback, plot_geom) ==
    {c \in plot_geom :
        \/ edge = 1 /\ c[1] <= setback
        \/ edge = 2 /\ c[2] > Height(plot_geom) - setback
        \/ edge = 3 /\ c[1] > Width(plot_geom) - setback
        \/ edge = 4 /\ c[2] <= setback}

\* line 1153 with intersection in place of difference
create_setback_area_intersection(edges, level_setback, plot_geom) ==
    plot_geom \cap UNION {EdgeBuffer(e, level_setback[e], plot_geom) :
                             e \in {k \in 1..Min(edges, Len(level_setback)) : level_setback[k] > 0}}

\* lines 1147-1155: zip(edges, edge_setbacks) pairs the two lists up to the
\* shorter one; only positive setbacks are buffered
create_setback_area(edges, level_setback, plot_geom) ==
    plot_geom \ UNION {EdgeBuffer(e, level_setback[e], plot_geom) :
                          e \in {k \in 1..Min(edges, Len(level_setback)) : level_setback[k] > 0}}

\* ------------------------------------------------ get_buildable_footprints
\* lines 1176-1179: a setback that is no list becomes a one-level list
LevelLists(cur_setback) == [j \in 1..Len(cur_setback) |-> <<cur_setback[j]>>]

\* lines 1184-1194: one footprint per level, kept when its area is positive
RECURSIVE setbacked_geom(_, _, _, _)
setbacked_geom(level, num_of_levels, cur_setback, p) ==
    IF level > num_of_levels THEN <<>>
    ELSE LET level_setback ==
                 [j \in 1..Len(cur_setback) |->
                     IF Len(cur_setback[j]) >= level THEN cur_setback[j][level]
                     ELSE cur_setback[j][Len(cur_setback[j])]]
             remaining_geom == create_setback_area(p.edges, level_setback, p.geometry)
         IN (IF Area(remaining_geom) > 0 THEN <<remaining_geom>> ELSE <<>>)
            \o setbacked_geom(level + 1, num_of_levels, cur_setback, p)

\* lines 1168-1202, one parcel; line 1181: max() of an empty sequence raises
\* ValueError, which is what a programme with an empty setback list gives
GetBuildableFootprints ==
    /\ pc = "footprints_call"
    /\ IF \E programme \in DOMAIN edge_setbacks : Len(edge_setbacks[programme]) = 0
       THEN pc' = "ValueError" /\ footprints' = footprints
       ELSE /\ footprints' =
                  [programme \in DOMAIN edge_setbacks |->
                      LET cur_setback == LevelLists(edge_setbacks[programme])
                          num_of_levels == SetMax({Len(cur_setback[j]) : j \in 1..Len(cur_setback)})
                      IN setbacked_geom(1, num_of_levels, cur_setback, plot)]
            /\ pc' = "gfa_call"
    /\ UNCHANGED <<prepVars, partVars, tableVars, edge_setbacks, parts, storeys, gfa>>

\* ------------------------------------------------------- compute_plot_gfa
\* lines 1400-1402: the linked DevelopmentControlPlan rows; with none linked
\* cur_dcp is pd.DataFrame(), a frame without any column
LinkedDcp == [columns |-> Len(dcp) > 0, rows |-> dcp]

\* lines 1071-1072, 1317-1318, 1406-1407: in residential zones only the rows
\* of the allowed residential programmes and of 'Clinic' are kept
ResidentialFilter(rows) ==
    IF plot.zone_residential
    THEN SelectSeq(rows, LAMBDA r : r.programme \in plot.allowed_residential_types \cup {"Clinic"})
    ELSE rows

\* lines 1427-1432 and 1472-1477: the smallest of the defined plot ratios
cur_gpr_without_plot(dcp_gprs, sbp_rows) ==
    PyMin(DropNa(dcp_gprs) \o DropNa(Column(sbp_rows, "gpr")), None)

cur_gpr(dcp_gprs, sbp_rows) ==
    PyMin(DropNa(dcp_gprs) \o DropNa(Column(sbp_rows, "gpr"))
          \o (IF plot.gpr # NaN THEN <<plot.gpr>> ELSE <<>>), None)

\* lines 1437, 1454: the footprint areas handed to compute_part_gfa for each part
part_footprint_areas(cur_parts, cur_footprints) ==
    IF Len(cur_parts) = 1
    THEN << [k \in 1..Len(cur_footprints) |-> Area(cur_footprints[k])] >>
    ELSE [i \in 1..Len(cur_parts) |->
            [k \in 1..Len(cur_footprints) |-> Area(cur_footprints[k] \cap cur_parts[i])]]

\* lines 1440-1457: one part, or the sum over the parts
parts_gfa(programme_storeys, areas, plot_area, cur_site_coverage) ==
    SumSeq([i \in 1..Len(areas) |->
               compute_part_gfa(programme_storeys[i], areas[i], plot_area, cur_site_coverage)])

\* the ratio cap without line 1463, an unknown GFA kept as it is
gpr_cap_nan_kept(programme_gfa, plot_area, gpr) ==
    IF gpr # None
    THEN Min(programme_gfa, (plot_area * gpr) \div RatioScale)
    ELSE programme_gfa

\* lines 1461-1467: the GFA within the allowed plot ratio
gpr_cap(programme_gfa, plot_area, gpr) ==
    IF gpr # None
    THEN Min(IF programme_gfa = NaN THEN Inf * RatioScale * RatioScale ELSE programme_gfa,
             (plot_area * gpr) \div RatioScale)
    ELSE programme_gfa

\* lines 1421-1467: the GFA of one programme with footprints
programme_gfa(programme, cur_dcp, plot_area) ==
    LET own == SelectSeq(cur_dcp, LAMBDA r : r.programme = programme)
        programme_storeys == storeys[programme]
        fps == footprints[programme]
        computed ==
            IF (\A i \in 1..Len(programme_storeys) : programme_storeys[i] # Inf) /\ Len(fps) > 0
            THEN parts_gfa(programme_storeys, part_footprint_areas(parts, fps), plot_area,
                           PyMin(Column(own, "site_coverage"), RatioScale))
            ELSE NaN
    IN gpr_cap(computed, plot_area, cur_gpr(Column(own, "gpr"), sbp))

\* lines 1386-1482, one parcel
ComputePlotGfa ==
    /\ pc = "gfa_call"
    /\ LET plot_area == Area(plot.geometry)
           linked == LinkedDcp
           cur_dcp == ResidentialFilter(linked.rows)
       IN IF plot.zone_residential /\ ~linked.columns
          THEN \* line 1407: cur_dcp['programme'] on a frame without columns
               pc' = "KeyError" /\ gfa' = gfa
          ELSE IF DOMAIN footprints # {} /\ DOMAIN storeys # {}
          THEN IF ~linked.columns
               THEN pc' = "KeyError" /\ gfa' = gfa
               ELSE /\ gfa' = [programme \in DOMAIN footprints |->
                                  programme_gfa(programme, cur_dcp, plot_area)]
                    /\ pc' = "gfa_done"
          ELSE IF ~linked.columns
               THEN \* line 1473: cur_dcp['gpr'] on a frame without columns
                    pc' = "KeyError" /\ gfa' = gfa
               ELSE /\ gfa' = [programme \in {"nan"} |->
                                  LET gpr == cur_gpr(Column(cur_dcp, "gpr"), sbp)
                                  IN IF gpr # None THEN (plot_area * gpr) \div RatioScale ELSE NaN]
                    /\ pc' = "gfa_done"
    /\ UNCHANGED <<prepVars, partVars, tableVars, edge_setbacks, footprints, parts, storeys>>

\* ------------------------------------------------- set_plot_edge_setbacks
\* Edge indices are 1..plot.edges (0..num_of_edges-1 in the code).

\* the builtin max(a, b): a unless b compares larger
PyMaxAdditive(a, b) == a + b

PyMax(a, b) == IF b > a THEN b ELSE a

\* lines 1074-1083: the setbacks of one type of the linked StreetBlockPlan
\* rows, sorted by level
RECURSIVE SortByLevel(_)
SortByLevel(rows) ==
    IF Len(rows) = 0 THEN <<>>
    ELSE LET k == CHOOSE i \in 1..Len(rows) :
                     \A j \in 1..Len(rows) :
                         rows[i].level < rows[j].level \/ (rows[i].level = rows[j].level /\ i <= j)
         IN <<rows[k]>> \o SortByLevel([i \in 1..(Len(rows) - 1) |->
                                            IF i < k THEN rows[i] ELSE rows[i + 1]])

sbp_setbacks(sbp_rows, setback_type) ==
    Column(SortByLevel(SelectSeq(sbp_rows, LAMBDA r : r.setback_type = setback_type)), "setback")

\* lines 1085-1091: the road-category rows named by the kept DCP rows
cur_road_cats(cur_dcp, road_rows) ==
    SelectSeq(road_rows,
              LAMBDA r : \E k \in 1..Len(cur_dcp) : r.road_reg \in cur_dcp[k].road_categories)

\* lines 1099-1102
apply_udg(setback_list, udg) ==
    [edge \in 1..Len(setback_list) |->
        IF edge \in DOMAIN udg THEN PyMax(setback_list[edge], udg[edge]) ELSE setback_list[edge]]

\* lines 1104-1107, one edge type
apply_sbp_type(setback_list, edges_of_type, edge_indices) ==
    [edge \in 1..Len(setback_list) |->
        IF edge \in edges_of_type
        THEN PyMax(setback_list[edge],
                   IF Len(edge_indices) > 0 THEN edge_indices[1] ELSE setback_list[edge])
        ELSE setback_list[edge]]

apply_sbp(setback_list, p, sbp_rows) ==
    apply_sbp_type(
        apply_sbp_type(
            apply_sbp_type(setback_list, p.front_edges, sbp_setbacks(sbp_rows, "FrontSetback")),
            p.side_edges, sbp_setbacks(sbp_rows, "SideSetback")),
        p.rear_edges, sbp_setbacks(sbp_rows, "RearSetback"))

\* Series.max(): the largest value that is not NaN, NaN when there is none
RECURSIVE SeriesMax(_)
SeriesMax(values) ==
    IF Len(values) = 0 THEN NaN
    ELSE LET rest == SeriesMax(Tail(values))
         IN IF values[1] = NaN THEN rest
            ELSE IF rest = NaN \/ values[1] > rest THEN values[1] ELSE rest

\* lines 1113-1114 with the buffer counted from the setback already required
raise_to_buffer_less_setback(setback, max_buffer) ==
    IF max_buffer > setback THEN max_buffer - setback ELSE 0

\* lines 1113-1114
raise_to_buffer(setback, max_buffer) == PyMax(setback, max_buffer)

\* lines 1109-1114, one road category
apply_road_category(setback_list, category_edges, road_rows, category) ==
    IF category_edges # {} /\ Len(road_rows) > 0
    THEN LET max_buffer ==
                 SeriesMax(Column(SelectSeq(road_rows, LAMBDA r : r.category = category), "buffer"))
         IN IF max_buffer # NaN
            THEN [edge \in 1..Len(setback_list) |->
                     IF edge \in category_edges
                     THEN raise_to_buffer(setback_list[edge], max_buffer)
                     ELSE setback_list[edge]]
            ELSE setback_list
    ELSE setback_list

apply_road_buffers(setback_list, p, road_rows) ==
    apply_road_category(
        apply_road_category(
            apply_road_category(setback_list, p.cat_1_edges, road_rows, 1),
            p.cat_2_edges, road_rows, 2),
        p.cat_3_5_edges, road_rows, 3)

\* lines 1116-1121 without the reset for the detached programmes
partywall_edges_detached_too(p, programme) ==
    IF programme \in {"Semi-DetachedHouse", "TerraceType1", "TerraceType2"}
    THEN (IF p.partywall THEN p.partywall_edges ELSE {}) \cup p.side_edges
    ELSE IF p.partywall THEN p.partywall_edges ELSE {}

\* lines 1116-1121: the edges whose setback is forced to 0
partywall_edges(p, programme) ==
    IF programme \in {"Bungalow", "GoodClassBungalow"} THEN {}
    ELSE IF programme \in {"Semi-DetachedHouse", "TerraceType1", "TerraceType2"}
    THEN (IF p.partywall THEN p.partywall_edges ELSE {}) \cup p.side_edges
    ELSE IF p.partywall THEN p.partywall_edges ELSE {}

\* lines 1123-1124
apply_partywall(setback_list, zeroed) ==
    [edge \in 1..Len(setback_list) |-> IF edge \in zeroed THEN 0 ELSE setback_list[edge]]

\* lines 1095-1126 with the party-wall override applied before the road buffers
setback_list_override_first(reg, p, sbp_rows, road_rows, udg) ==
    apply_road_buffers(
        apply_partywall(
            apply_sbp(apply_udg([edge \in 1..p.edges |-> reg.setback], udg), p, sbp_rows),
            partywall_edges(p, reg.programme)),
        p, road_rows)

\* lines 1095-1126: the setback list of one DevelopmentControlPlan row
setback_list_of(reg, p, sbp_rows, road_rows, udg) ==
    apply_partywall(
        apply_road_buffers(
            apply_sbp(apply_udg([edge \in 1..p.edges |-> reg.setback], udg), p, sbp_rows),
            p, road_rows),
        partywall_edges(p, reg.programme))

\* lines 1061-1126: plot_setbacks; a later row of a programme replaces the
\* entry of an earlier one
LastRowOf(cur_dcp, programme) ==
    CHOOSE k \in 1..Len(cur_dcp) :
        /\ cur_dcp[k].programme = programme
        /\ \A j \in (k + 1)..Len(cur_dcp) : cur_dcp[j].programme # programme

KeptDcp(p, dcp_rows) ==
    IF p.zone_residential
    THEN SelectSeq(dcp_rows, LAMBDA r : r.programme \in p.allowed_residential_types \cup {"Clinic"})
    ELSE dcp_rows

plot_setbacks(p, dcp_rows, sbp_rows, road_rows, udg) ==
    LET cur_dcp == KeptDcp(p, dcp_rows)
        roads == cur_road_cats(cur_dcp, road_rows)
    IN [programme \in {cur_dcp[k].programme : k \in 1..Len(cur_dcp)} |->
           setback_list_of(cur_dcp[LastRowOf(cur_dcp, programme)], p, sbp_rows, roads, udg)]

SetPlotEdgeSetbacks ==
    /\ pc = "setbacks_call"
    /\ edge_setbacks' = plot_setbacks(plot, dcp, sbp, road_cats, udg_edges)
    /\ pc' = "setbacks_done"
    /\ UNCHANGED <<prepVars, partVars, tableVars, footprints, parts, storeys, gfa>>

\* ------------------------------------------- calls of compute_part_gfa
\* The arguments compute_plot_gfa passes (lines 1434-1457): a finite storey
\* count, a non-empty list of footprint areas none larger than the parcel,
\* the parcel area and the site-coverage ceiling.
PartArgs ==
    {a \in [allowed_storeys : 0..MaxStoreys,
            footprint_areas : SeqsUpTo(AreaValues(MaxAreaUnits), MaxLevels) \ {<<>>},
            plot_area : AreaValues(MaxAreaUnits) \ {0},
            site_coverage : 0..RatioScale] :
        \A k \in 1..Len(a.footprint_areas) : a.footprint_areas[k] <= a.plot_area}

InitPart ==
    /\ PrepIdle
    /\ pc = "part_call"
    /\ args \in PartArgs
    /\ part_gfa = NaN
    /\ plot = NoPlot /\ dcp = <<>> /\ sbp = <<>> /\ road_cats = <<>> /\ udg_edges = <<>>
    /\ edge_setbacks = <<>> /\ footprints = <<>> /\ parts = <<>> /\ storeys = <<>>
    /\ gfa = <<>>

CallComputePartGfa ==
    /\ pc = "part_call"
    /\ part_gfa' = compute_part_gfa(args.allowed_storeys, args.footprint_areas,
                                    args.plot_area, args.site_coverage)
    /\ pc' = "part_done"
    /\ UNCHANGED <<prepVars, args, tableVars, columnVars>>

\* the same call with one more allowed storey
RaiseAllowedStoreys ==
    /\ pc = "part_done"
    /\ args.allowed_storeys < MaxStoreys
    /\ args' = [args EXCEPT !.allowed_storeys = @ + 1]
    /\ part_gfa' = compute_part_gfa(args'.allowed_storeys, args'.footprint_areas,
                                    args'.plot_area, args'.site_coverage)
    /\ UNCHANGED <<prepVars, pc, tableVars, columnVars>>

\* the same call with a lower site-coverage ceiling
LowerSiteCoverage ==
    /\ pc = "part_done"
    /\ args.site_coverage > 0
    /\ args' = [args EXCEPT !.site_coverage = @ - 1]
    /\ part_gfa' = compute_part_gfa(args'.allowed_storeys, args'.footprint_areas,
                                    args'.plot_area, args'.site_coverage)
    /\ UNCHANGED <<prepVars, pc, tableVars, columnVars>>

NextPart == CallComputePartGfa \/ RaiseAllowedStoreys \/ LowerSiteCoverage

SpecPart == InitPart /\ [][NextPart]_vars

\* ----------------------------------------------------------------- C2
RECURSIVE SumCapped(_, _, _, _)
SumCapped(k, footprint_areas, plot_area, site_coverage) ==
    IF k = 0 THEN 0
    ELSE Min(footprint_areas[k], (plot_area * site_coverage) \div RatioScale)
         + SumCapped(k - 1, footprint_areas, plot_area, site_coverage)

ClaimedPartGfa(a) ==
    LET n == Len(a.footprint_areas)
        cap == (a.plot_area * a.site_coverage) \div RatioScale
    IN SumCapped(Min(a.allowed_storeys, n), a.footprint_areas, a.plot_area, a.site_coverage)
       + IF a.allowed_storeys > n
         THEN (a.allowed_storeys - n) * Min(a.footprint_areas[n], cap)
         ELSE 0

\* C2: compute_part_gfa returns the sum over the storeys k < min(s, number of
\* footprints) of min(footprint[k], A x c), plus, when s exceeds the number of
\* footprints, (s - number of footprints) times the capped last footprint.
C2_PartGfaFormula == pc = "part_done" => part_gfa = ClaimedPartGfa(args)

\* a call with more storeys than footprints whose last footprint is capped
C2_Witness ==
    /\ pc = "part_done"
    /\ args.allowed_storeys > Len(args.footprint_areas)
    /\ Len(args.footprint_areas) >= 2
    /\ args.footprint_areas[Len(args.footprint_areas)] * RatioScale
           > args.plot_area * args.site_coverage
    /\ args.footprint_areas[1] * RatioScale < args.plot_area * args.site_coverage
    /\ part_gfa > 0

\* ----------------------------------------------------------------- C6
\* C6: for fixed footprint areas and parcel area, raising allowed_storeys
\* never lowers compute_part_gfa and lowering the site-coverage ceiling never
\* raises it.
C6_PartGfaMonotone ==
    [][(pc = "part_done" /\ pc' = "part_done"
        /\ args'.footprint_areas = args.footprint_areas
        /\ args'.plot_area = args.plot_area)
       => /\ (args'.allowed_storeys >= args.allowed_storeys
              /\ args'.site_coverage = args.site_coverage) => part_gfa' >= part_gfa
          /\ (args'.site_coverage <= args.site_coverage
              /\ args'.allowed_storeys = args.allowed_storeys) => part_gfa' <= part_gfa]_vars

\* a call where one more storey was allowed and the value grew, and the
\* ceiling was lowered below the footprint
C6_Witness ==
    /\ pc = "part_done"
    /\ args.allowed_storeys = MaxStoreys
    /\ args.site_coverage < RatioScale
    /\ part_gfa = MaxStoreys * ((args.plot_area * args.site_coverage) \div RatioScale)
    /\ part_gfa > 0
    /\ part_gfa < MaxStoreys * args.footprint_areas[1]

\* ------------------------------------------- calls of compute_plot_gfa
\* The parcel rows and linked tables compute_plot_gfa reads.  The parcel is a
\* strip of PlotCells cells; a footprint is the strip's first k cells and the
\* footprints do not grow with the level; the parts are the whole parcel or
\* its two pieces on either side of a cut.
GfaProgrammes == {"Bungalow", "Clinic"}

DcpRow(programme, gpr, site_coverage) ==
    [programme |-> programme, gpr |-> gpr, site_coverage |-> site_coverage,
     setback |-> 0, storeys |-> NaN, road_categories |-> {"rc"}]

GfaDcpRows ==
    {DcpRow(p, gc[1], gc[2]) :
        p \in GfaProgrammes,
        gc \in {<<NaN, RatioScale>>, <<2 * RatioScale, RatioScale \div 2>>}}

SbpGprRow(gpr) ==
    [gpr |-> gpr, setback_type |-> "FrontSetback", level |-> 1, setback |-> 0, storeys |-> NaN]

GfaSbp == {<<>>, <<SbpGprRow(RatioScale)>>, <<SbpGprRow(NaN), SbpGprRow(RatioScale)>>}

GfaPlots ==
    {[NoPlot EXCEPT !.zone_residential = z, !.allowed_residential_types = a, !.gpr = g,
                    !.geometry = Rect(PlotCells, 1)] :
        z \in BOOLEAN, a \in {{}, {"Bungalow"}},
        g \in {NaN, RatioScale \div 2, 3 * RatioScale}}

PartChoices ==
    {<<Rect(PlotCells, 1)>>}
    \cup {<<Rect(k, 1), Rect(PlotCells, 1) \ Rect(k, 1)>> : k \in 1..(PlotCells - 1)}

FootprintLists ==
    {f \in SeqsUpTo({Rect(k, 1) : k \in 1..PlotCells}, MaxLevels) :
        \A k \in 1..(Len(f) - 1) : f[k + 1] \subseteq f[k]}

StoreyValues == {0, 1, MaxStoreys, Inf}

InitGfa ==
    /\ pc = "gfa_call"
    /\ args = NoArgs /\ part_gfa = NaN
    /\ PrepIdle
    /\ plot \in {q \in GfaPlots : q.zone_residential \/ q.allowed_residential_types = {}}
    /\ dcp \in SeqsUpTo(GfaDcpRows, MaxDcpRows)
    /\ sbp \in GfaSbp
    /\ road_cats = <<>> /\ udg_edges = <<>> /\ edge_setbacks = <<>>
    /\ gfa = <<>>
    /\ LET cur_dcp == ResidentialFilter(dcp)
           keys == {cur_dcp[k].programme : k \in 1..Len(cur_dcp)}
       IN IF keys = {}
          THEN parts = <<plot.geometry>> /\ footprints = <<>> /\ storeys = <<>>
          ELSE \E ps \in PartChoices, fp \in FootprintLists :
                  \E st \in [1..Len(ps) -> StoreyValues] :
                      /\ parts = ps
                      /\ footprints = [programme \in keys |-> fp]
                      /\ storeys = [programme \in keys |-> st]

NextGfa == ComputePlotGfa

SpecGfa == InitGfa /\ [][NextGfa]_vars

\* ----------------------------------------------------------------- C1
SetMin(S) == CHOOSE x \in S : \A y \in S : x <= y

RowsOf(programme) == {dcp[k] : k \in {j \in 1..Len(dcp) : dcp[j].programme = programme}}

SbpRatios == {sbp[k].gpr : k \in 1..Len(sbp)} \ {NaN}

\* the defined plot ratios of a programme: its development-control-plan
\* ratios, the linked street-block-plan ratios and the parcel's base ratio
DefinedRatios(programme) ==
    ({r.gpr : r \in RowsOf(programme)} \cup SbpRatios \cup {plot.gpr}) \ {NaN}

HasGfaData(programme) ==
    /\ programme \in DOMAIN footprints /\ programme \in DOMAIN storeys
    /\ Len(footprints[programme]) > 0
    /\ \A i \in 1..Len(storeys[programme]) : storeys[programme][i] # Inf

ClaimedCoverage(programme) ==
    LET cs == {r.site_coverage : r \in RowsOf(programme)} \ {NaN}
    IN IF cs = {} THEN RatioScale ELSE SetMin(cs)

SumOfPartGfas(programme) ==
    SumSeq([i \in 1..Len(parts) |->
        ClaimedPartGfa([allowed_storeys |-> storeys[programme][i],
                        footprint_areas |-> [k \in 1..Len(footprints[programme]) |->
                                                Area(footprints[programme][k] \cap parts[i])],
                        plot_area |-> Area(plot.geometry),
                        site_coverage |-> ClaimedCoverage(programme)])])

RatioCeiling(programme) == (Area(plot.geometry) * SetMin(DefinedRatios(programme))) \div RatioScale

\* C1: with footprint and storey data and at least one defined plot ratio the
\* reported GFA is min(sum of the part GFAs, parcel area x smallest defined
\* ratio); footprints {800, 800, 600}, 3 storeys, site coverage 0.9, area 1000
\* and ratio 2.0 give 2000.
C1_GfaCappedByRatio ==
    /\ pc = "gfa_done" =>
          \A programme \in DOMAIN gfa :
              (HasGfaData(programme) /\ DefinedRatios(programme) # {}) =>
                  /\ gfa[programme] = Min(SumOfPartGfas(programme), RatioCeiling(programme))
                  /\ gfa[programme] <= RatioCeiling(programme)
    /\ gpr_cap(parts_gfa(<<3>>, << <<80 * RatioScale, 80 * RatioScale, 60 * RatioScale>> >>,
                         100 * RatioScale, RatioScale - 1),
               100 * RatioScale, 2 * RatioScale) = 200 * RatioScale

\* a parcel in two parts whose summed part GFAs exceed the ratio ceiling set
\* by the parcel's base ratio
C1_Witness ==
    /\ pc = "gfa_done"
    /\ Len(parts) = 2
    /\ \E programme \in DOMAIN gfa :
          /\ HasGfaData(programme)
          /\ DefinedRatios(programme) # {}
          /\ plot.gpr = SetMin(DefinedRatios(programme))
          /\ SbpRatios # {}
          /\ gfa[programme] > 0
          /\ gfa[programme] < SumOfPartGfas(programme)

\* ----------------------------------------------------------------- C3
NoGfaData == DOMAIN footprints = {} \/ DOMAIN storeys = {}

\* the ratios of a parcel without programme data: those of the rows kept for
\* the parcel, the linked street-block plans and the base ratio
ParcelRatios ==
    LET cur_dcp == ResidentialFilter(dcp)
    IN ({cur_dcp[k].gpr : k \in 1..Len(cur_dcp)} \cup SbpRatios \cup {plot.gpr}) \ {NaN}

\* C3: a parcel with a defined plot ratio and no footprint or storey data gets
\* GFA = parcel area x the smallest defined ratio and no error is raised,
\* whatever its regulation links (none at all, or none to a
\* development-control plan).
C3_RatioFallback ==
    (pc \in {"gfa_done", "KeyError"} /\ NoGfaData /\ ParcelRatios # {}) =>
        /\ pc = "gfa_done"
        /\ \A programme \in DOMAIN gfa :
              gfa[programme] = (Area(plot.geometry) * SetMin(ParcelRatios)) \div RatioScale

\* ----------------------------------------------------------------- C4
\* C4: where neither a computable GFA (footprints with finite storeys) nor any
\* plot ratio is available, the reported value is NaN and never 0.
C4_UnknownMarker ==
    pc \in {"gfa_done", "KeyError"} =>
        /\ (NoGfaData /\ ParcelRatios = {}) =>
              pc = "gfa_done" /\ \A programme \in DOMAIN gfa : gfa[programme] = NaN
        /\ \A programme \in DOMAIN footprints :
              (~HasGfaData(programme) /\ DefinedRatios(programme) = {}) =>
                  pc = "gfa_done" /\ gfa[programme] = NaN /\ gfa[programme] # 0

\* ------------------------------------- calls of set_plot_edge_setbacks
\* The parcel has NumEdges boundary edges.  A parcel of a street-block plan
\* whose edges were classified has edge 1 as front edge, the last edge as rear
\* edge and the edges between as side edges; party-wall edges exist only on
\* party-wall parcels and are never rear edges (set_partywall_edges); edge 1
\* may face a category-1 road.
SetbackProgrammes ==
    {"Bungalow", "GoodClassBungalow", "Semi-DetachedHouse", "TerraceType1", "TerraceType2", "Flat"}

SetbackDcpTables ==
    {<<>>} \cup {<<[DcpRow(p, NaN, RatioScale) EXCEPT !.setback = v]>> :
                    p \in SetbackProgrammes, v \in 0..MaxSetback}

SetbackSbpTables ==
    {<<>>} \cup {<<[gpr |-> NaN, setback_type |-> t, level |-> 1, setback |-> v, storeys |-> NaN]>> :
                    t \in {"FrontSetback", "SideSetback", "RearSetback"}, v \in 0..MaxSetback}

RoadCategoryTables ==
    {<<>>} \cup {<<[road_reg |-> "rc", category |-> c, buffer |-> v]>> :
                    c \in {1, 3}, v \in 0..MaxSetback}

UdgEdgeSetbacks ==
    {<<>>} \cup {[edge \in {e} |-> v] : e \in {1, NumEdges - 1}, v \in 0..MaxSetback}

SetbackPlots ==
    {[NoPlot EXCEPT !.zone_residential = z,
                    !.allowed_residential_types = IF z THEN {"Bungalow", "TerraceType1"} ELSE {},
                    !.edges = NumEdges,
                    !.front_edges = IF classified THEN {1} ELSE {},
                    !.side_edges = IF classified THEN 2..(NumEdges - 1) ELSE {},
                    !.rear_edges = IF classified THEN {NumEdges} ELSE {},
                    !.cat_1_edges = IF road THEN {1} ELSE {},
                    !.partywall = pw[1],
                    !.partywall_edges = pw[2]] :
        z \in BOOLEAN, classified \in BOOLEAN, road \in BOOLEAN,
        pw \in {<<FALSE, {}>>, <<TRUE, {}>>, <<TRUE, {1}>>, <<TRUE, {NumEdges - 1}>>}}

InitSetbacks ==
    /\ pc = "setbacks_call"
    /\ args = NoArgs /\ part_gfa = NaN
    /\ PrepIdle
    /\ plot \in SetbackPlots
    /\ dcp \in SetbackDcpTables
    /\ sbp \in SetbackSbpTables
    /\ road_cats \in RoadCategoryTables
    /\ udg_edges \in UdgEdgeSetbacks
    /\ edge_setbacks = <<>> /\ footprints = <<>> /\ parts = <<>> /\ storeys = <<>>
    /\ gfa = <<>>

\* The setback table is recomputed when an input changes: each action below
\* raises one value of one regulatory source and runs set_plot_edge_setbacks
\* again.
RaiseBaseSetback ==
    /\ pc = "setbacks_done"
    /\ \E k \in 1..Len(dcp) :
          /\ dcp[k].setback < MaxSetback
          /\ dcp' = [dcp EXCEPT ![k].setback = @ + 1]
    /\ edge_setbacks' = plot_setbacks(plot, dcp', sbp, road_cats, udg_edges)
    /\ UNCHANGED <<prepVars, pc, partVars, plot, sbp, road_cats, udg_edges, footprints, parts, storeys, gfa>>

RaiseRoadBuffer ==
    /\ pc = "setbacks_done"
    /\ \E k \in 1..Len(road_cats) :
          /\ road_cats[k].buffer < MaxSetback
          /\ road_cats' = [road_cats EXCEPT ![k].buffer = @ + 1]
    /\ edge_setbacks' = plot_setbacks(plot, dcp, sbp, road_cats', udg_edges)
    /\ UNCHANGED <<prepVars, pc, partVars, plot, dcp, sbp, udg_edges, footprints, parts, storeys, gfa>>

RaiseSbpSetback ==
    /\ pc = "setbacks_done"
    /\ \E k \in 1..Len(sbp) :
          /\ sbp[k].setback < MaxSetback
          /\ sbp' = [sbp EXCEPT ![k].setback = @ + 1]
    /\ edge_setbacks' = plot_setbacks(plot, dcp, sbp', road_cats, udg_edges)
    /\ UNCHANGED <<prepVars, pc, partVars, plot, dcp, road_cats, udg_edges, footprints, parts, storeys, gfa>>

RaiseUdgSetback ==
    /\ pc = "setbacks_done"
    /\ \E e \in DOMAIN udg_edges :
          /\ udg_edges[e] < MaxSetback
          /\ udg_edges' = [udg_edges EXCEPT ![e] = @ + 1]
    /\ edge_setbacks' = plot_setbacks(plot, dcp, sbp, road_cats, udg_edges')
    /\ UNCHANGED <<prepVars, pc, partVars, plot, dcp, sbp, road_cats, footprints, parts, storeys, gfa>>

NextSetbacks ==
    \/ SetPlotEdgeSetbacks
    \/ RaiseBaseSetback
    \/ RaiseRoadBuffer
    \/ RaiseSbpSetback
    \/ RaiseUdgSetback

SpecSetbacks == InitSetbacks /\ [][NextSetbacks]_vars

\* ----------------------------------------------------------------- C7
\* C7: raising the value of one setback source (base setback, road-category
\* buffer, street-block-plan setback, urban-design-guideline setback) with
\* everything else fixed never decreases the setback resolved for any edge;
\* an edge forced to 0 by the party-wall override stays at 0.
C7_SetbackMonotone ==
    [][(pc = "setbacks_done" /\ pc' = "setbacks_done") =>
          /\ DOMAIN edge_setbacks' = DOMAIN edge_setbacks
          /\ \A programme \in DOMAIN edge_setbacks : \A edge \in 1..plot.edges :
                edge_setbacks'[programme][edge] >= edge_setbacks[programme][edge]]_vars

\* every source raised to the top value on an edge that is not overridden
C7_Witness ==
    /\ pc = "setbacks_done"
    /\ \E programme \in DOMAIN edge_setbacks :
          /\ edge_setbacks[programme][1] = MaxSetback
          /\ 1 \in plot.cat_1_edges /\ 1 \in plot.front_edges /\ 1 \in DOMAIN udg_edges
          /\ Len(road_cats) > 0 /\ road_cats[1].category = 1 /\ road_cats[1].buffer = MaxSetback
          /\ Len(sbp) > 0 /\ sbp[1].setback_type = "FrontSetback" /\ sbp[1].setback = MaxSetback
          /\ udg_edges[1] = MaxSetback
          /\ dcp[1].setback = MaxSetback

\* ----------------------------------------------------------------- C8
AttachedProgrammes == {"TerraceType1", "TerraceType2", "Semi-DetachedHouse"}

DetachedProgrammes == {"Bungalow", "GoodClassBungalow"}

BaseSetback(programme) == SetMin({r.setback : r \in RowsOf(programme)})

EdgeCategories(edge) ==
    {c \in {1, 2, 3} :
        edge \in (IF c = 1 THEN plot.cat_1_edges
                  ELSE IF c = 2 THEN plot.cat_2_edges ELSE plot.cat_3_5_edges)}

EdgeClasses(edge) ==
    {t \in {"FrontSetback", "SideSetback", "RearSetback"} :
        edge \in (IF t = "FrontSetback" THEN plot.front_edges
                  ELSE IF t = "SideSetback" THEN plot.side_edges ELSE plot.rear_edges)}

\* the setbacks of all sources applying to an edge under a programme
EdgeSources(programme, edge) ==
    {BaseSetback(programme)}
    \cup (IF edge \in DOMAIN udg_edges THEN {udg_edges[edge]} ELSE {})
    \cup {sbp[k].setback : k \in {j \in 1..Len(sbp) :
                                     sbp[j].level = 1 /\ sbp[j].setback_type \in EdgeClasses(edge)}}
    \cup {road_cats[k].buffer : k \in {j \in 1..Len(road_cats) :
                                          road_cats[j].category \in EdgeCategories(edge)}}

C9_PartyWallZero ==
    pc = "setbacks_done" =>
        \A programme \in DOMAIN edge_setbacks \cap AttachedProgrammes :
            plot.partywall => \A edge \in plot.partywall_edges : edge_setbacks[programme][edge] = 0

\* a party-wall edge that also faces a road with a positive buffer
C9_Witness ==
    /\ pc = "setbacks_done"
    /\ plot.partywall
    /\ \E programme \in DOMAIN edge_setbacks \cap AttachedProgrammes :
          \E edge \in plot.partywall_edges :
              /\ edge \in plot.cat_1_edges
              /\ \E k \in 1..Len(road_cats) : road_cats[k].category = 1 /\ road_cats[k].buffer > 0
              /\ BaseSetback(programme) > 0
              /\ edge_setbacks[programme][edge] = 0

\* ---------------------------------------------------------------- C10
\* C10: under Bungalow and GoodClassBungalow no edge is zeroed: every edge,
\* party-wall and side edges included, has at least the base setback.
C10_DetachedNeverZeroed ==
    pc = "setbacks_done" =>
        \A programme \in DOMAIN edge_setbacks \cap DetachedProgrammes :
            \A edge \in 1..plot.edges :
                edge_setbacks[programme][edge] >= BaseSetback(programme)

\* a detached programme with a positive base setback on a classified
\* party-wall parcel
C10_Witness ==
    /\ pc = "setbacks_done"
    /\ plot.partywall /\ plot.partywall_edges # {} /\ plot.side_edges # {}
    /\ \E programme \in DOMAIN edge_setbacks \cap DetachedProgrammes :
          /\ BaseSetback(programme) > 0
          /\ \A edge \in plot.partywall_edges \cup plot.side_edges :
                edge_setbacks[programme][edge] >= BaseSetback(programme)

\* ---------------------- footprints and GFA of a rectangular parcel
\* The parcel is a rectangle of up to MaxSide x MaxSide cells with one part
\* and one development-control-plan row; its setback table is the column
\* written by set_plot_edge_setbacks, one value per edge.
EnvelopeDcpTables ==
    {<<DcpRow("Flat", g, c)>> : g \in {NaN, RatioScale}, c \in {RatioScale \div 2, RatioScale}}

EnvelopePlots ==
    {[NoPlot EXCEPT !.geometry = Rect(w, h), !.edges = RectEdges, !.gpr = g] :
        w \in 1..MaxSide, h \in 1..MaxSide,
        g \in {NaN, RatioScale \div 2, 2 * RatioScale}}

InitEnvelope ==
    /\ pc = "footprints_call"
    /\ args = NoArgs /\ part_gfa = NaN
    /\ PrepIdle
    /\ plot \in EnvelopePlots
    /\ dcp \in EnvelopeDcpTables
    /\ sbp = <<>> /\ road_cats = <<>> /\ udg_edges = <<>>
    /\ edge_setbacks \in {[programme \in {"Flat"} |-> sl] : sl \in [1..RectEdges -> 0..MaxSetback]}
    /\ footprints = <<>>
    /\ parts = <<plot.geometry>>
    /\ storeys \in {[programme \in {"Flat"} |-> <<st>>] : st \in {1, MaxStoreys, Inf}}
    /\ gfa = <<>>

NextEnvelope == GetBuildableFootprints \/ ComputePlotGfa

SpecEnvelope == InitEnvelope /\ [][NextEnvelope]_vars

\* ----------------------------------------------------------------- C5
ZeroSetbacks(programme) ==
    \A edge \in 1..Len(edge_setbacks[programme]) : edge_setbacks[programme][edge] = 0

\* C5: with one part, one programme, setback 0 on every edge, 1 allowed
\* storey, site coverage 1.0 and no plot-ratio ceiling below 1.0,
\* create_setback_area returns the parcel polygon unchanged and the reported
\* GFA equals the parcel area.
C5_ZeroSetbackRoundTrip ==
    \A programme \in DOMAIN edge_setbacks :
        (Len(parts) = 1 /\ DOMAIN edge_setbacks = {programme} /\ ZeroSetbacks(programme)) =>
            /\ pc \in {"gfa_call", "gfa_done"} => footprints[programme] = <<plot.geometry>>
            /\ (pc = "gfa_done"
                /\ storeys[programme] = <<1>>
                /\ ClaimedCoverage(programme) = RatioScale
                /\ \A r \in DefinedRatios(programme) : r >= RatioScale)
               => gfa[programme] = Area(plot.geometry)

\* such a parcel of more than one cell, with a plot ratio of 1.0 defined,
\* after compute_plot_gfa
C5_Witness ==
    /\ pc = "gfa_done"
    /\ Len(parts) = 1
    /\ \E programme \in DOMAIN gfa :
          /\ DOMAIN edge_setbacks = {programme}
          /\ ZeroSetbacks(programme)
          /\ storeys[programme] = <<1>>
          /\ ClaimedCoverage(programme) = RatioScale
          /\ DefinedRatios(programme) = {RatioScale, 2 * RatioScale}
          /\ Cardinality(plot.geometry) > 1
          /\ gfa[programme] = Area(plot.geometry)

\* ------------------- footprints from a setback list of any length
\* get_buildable_footprints reads the columns 'edges' and 'edge_setbacks' of
\* the parcel row it is given; here the setback list of the programme has
\* between 0 and RectEdges + 1 entries for the RectEdges edges of the parcel.
SetbackListsOfAnyLength ==
    UNION {[1..n -> 0..MaxSetback] : n \in 0..(RectEdges + 1)}

InitFootprints ==
    /\ pc = "footprints_call"
    /\ args = NoArgs /\ part_gfa = NaN
    /\ PrepIdle
    /\ plot \in {[NoPlot EXCEPT !.geometry = Rect(w, h), !.edges = RectEdges] :
                    w \in 1..MaxSide, h \in 1..MaxSide}
    /\ dcp = <<DcpRow("Flat", NaN, RatioScale)>>
    /\ sbp = <<>> /\ road_cats = <<>> /\ udg_edges = <<>>
    /\ edge_setbacks \in {[programme \in {"Flat"} |-> sl] : sl \in SetbackListsOfAnyLength}
    /\ footprints = <<>>
    /\ parts = <<plot.geometry>>
    /\ storeys = [programme \in {"Flat"} |-> <<1>>]
    /\ gfa = <<>>

NextFootprints == GetBuildableFootprints

SpecFootprints == InitFootprints /\ [][NextFootprints]_vars

\* ---------------------------------------------------------------- C11
\* C11: when the setback list of a programme and the edge list of its parcel
\* differ in length, get_buildable_footprints aborts with an error and
\* returns no footprint built from the common prefix of the two lists.
C11_MismatchAborts ==
    \A programme \in DOMAIN edge_setbacks :
        Len(edge_setbacks[programme]) # plot.edges =>
            /\ pc \in {"footprints_call", "ValueError"}
            /\ footprints = <<>>

\* ------------------------------------------ bounding-rectangle edge types
\* One parcel.  Its minimum rotated rectangle has the edges of order 0..3 in
\* ring order, so edges 0 and 2 are opposite and so are 1 and 3.  A row of
\* the overlay frame is one (edge, road parcel) pair with a non-empty
\* intersection; neighbor says whether the road is in the parcel's
\* neighbor_list.  Lengths are in metres, areas in square metres.
MinRectOrders == 0..3

\* line 207: edges.buffer(3, single_sided=False, cap_style=3)
BufferWidth == 3

\* line 208: the area of the square-capped buffer of an edge
buffered_area(length) == (length + 2 * BufferWidth) * (2 * BufferWidth)

\* lines 224-228: rows of roads that are no neighbours of the parcel are dropped
intersect_roads_with_edges(rows) == SelectSeq(rows, LAMBDA r : r.neighbor)

\* line 245 sorting by intersection_area alone
SortsBeforeByAreaOnly(r1, r2, length) == r1.intersection_area > r2.intersection_area

\* lines 245-246, 797: row r1 sorts before row r2 in
\* sort_values(by=[plots_1, intersection_area, length], ascending=False)
SortsBefore(r1, r2, length) ==
    \/ r1.intersection_area > r2.intersection_area
    \/ r1.intersection_area = r2.intersection_area /\ length[r1.order] > length[r2.order]

\* lines 244-248, 800: the order of the first row of the sorted frame; rows
\* that compare equal keep their frame order
front_edge(intersection, length) ==
    IF Len(intersection) = 0 THEN NaN
    ELSE LET best == {k \in 1..Len(intersection) :
                         \A j \in 1..Len(intersection) :
                             ~SortsBefore(intersection[j], intersection[k], length)}
         IN intersection[CHOOSE k \in best : \A j \in best : k <= j].order

\* lines 252-257, 808-813
front_edge_length(front, length) == IF front = NaN THEN 0 ELSE length[front]

\* lines 260-261 without the not_front_edge mask
rear_edge_including_front(front, length) ==
    LET same == {e \in MinRectOrders : length[e] = front_edge_length(front, length)}
    IN IF same = {} THEN NaN ELSE CHOOSE e \in same : \A f \in same : e <= f

\* lines 260-261 without the comparison of lengths
rear_edge_of_any_length(front, length) ==
    LET other == {e \in MinRectOrders : e # front}
    IN IF front = NaN THEN NaN ELSE CHOOSE e \in other : \A f \in other : e <= f

\* lines 260-261, 816-817: the first edge that is not the front edge and has
\* the front edge's length
rear_edge(front, length) ==
    LET same == {e \in MinRectOrders : e # front /\ length[e] = front_edge_length(front, length)}
    IN IF same = {} THEN NaN ELSE CHOOSE e \in same : \A f \in same : e <= f

\* lines 266-269, 821-829
side_edges(front, rear) == IF front = NaN THEN NaN ELSE MinRectOrders \ {front, rear}

edge_types_of(intersection, length) ==
    LET front == front_edge(intersection, length)
        rear == rear_edge(front, length)
    IN [min_rect_front_edge |-> front, min_rect_rear_edge |-> rear,
        min_rect_side_edges |-> side_edges(front, rear), is_corner_plot |-> "nan"]

\* lines 212-230
IntersectRoadsWithEdges ==
    /\ pc = "overlay_done"
    /\ min_rect' = [min_rect EXCEPT !.intersection = intersect_roads_with_edges(@)]
    /\ pc' = "edge_types_call"
    /\ UNCHANGED <<partVars, tableVars, columnVars, edge_types, height_regs, lha, batchVars>>

\* lines 233-271
SetMinRectEdgeTypes ==
    /\ pc = "edge_types_call"
    /\ edge_types' = edge_types_of(min_rect.intersection, min_rect.length)
    /\ pc' = "corner_call"
    /\ UNCHANGED <<partVars, tableVars, columnVars, min_rect, height_regs, lha, batchVars>>

\* lines 780-831: the same classification for the parcels of street-block
\* plans, over the overlay with all road parcels
ClassifyMinRectEdges ==
    /\ pc = "overlay_done"
    /\ edge_types' = edge_types_of(min_rect.intersection, min_rect.length)
    /\ pc' = "classified"
    /\ UNCHANGED <<partVars, tableVars, columnVars, min_rect, height_regs, lha, batchVars>>

\* line 348: is_corner_plot(intersection, res_plots, 0.3), in 1/RatioScale
OverlapRatio == 3

\* line 285: the edges with a row whose intersection_area / buffered_area
\* exceeds overlap_ratio
road_edges(intersection, length, overlap_ratio) ==
    {intersection[k].order : k \in {j \in 1..Len(intersection) :
        intersection[j].intersection_area * RatioScale
            > overlap_ratio * buffered_area(length[intersection[j].order])}}

\* lines 297-298
is_corner_plot_helper(order, min_rect_rear_edge) ==
    Cardinality(order \ {min_rect_rear_edge}) > 1

\* lines 274-294: a parcel without a row above the ratio is not in road_edges
\* and the left merge leaves its flag NaN; astype(int) at line 289 raises on
\* a rear edge that is NaN
IsCornerPlot ==
    /\ pc = "corner_call"
    /\ LET order == road_edges(min_rect.intersection, min_rect.length, OverlapRatio)
       IN IF order = {}
          THEN pc' = "corner_done" /\ edge_types' = edge_types
          ELSE IF edge_types.min_rect_rear_edge = NaN
          THEN pc' = "ValueError" /\ edge_types' = edge_types
          ELSE /\ pc' = "corner_done"
               /\ edge_types' =
                     [edge_types EXCEPT !.is_corner_plot =
                         IF is_corner_plot_helper(order, edge_types.min_rect_rear_edge)
                         THEN "True" ELSE "False"]
    /\ UNCHANGED <<partVars, tableVars, columnVars, min_rect, height_regs, lha, batchVars>>

\* --------------------------------------------- calls of the edge classifier
MaxRoadRows == 2

\* rows of gpd.overlay(edges, roads): an edge, the area of its buffer inside
\* one road parcel, and whether that road is a neighbour of the parcel
OverlayRows ==
    [order : MinRectOrders, intersection_area : AreaValues(MaxAreaUnits) \ {0}, neighbor : BOOLEAN]

\* lines 344-345: the edges of the minimum rotated rectangle of a parcel
MinRectLengths ==
    {[e \in MinRectOrders |-> IF e \in {0, 2} THEN a ELSE b] : a \in 1..MaxSide, b \in 1..MaxSide}

InitEdgeTypes ==
    /\ pc = "overlay_done"
    /\ args = NoArgs /\ part_gfa = NaN
    /\ plot = NoPlot
    /\ dcp = <<>> /\ sbp = <<>> /\ road_cats = <<>> /\ udg_edges = <<>>
    /\ edge_setbacks = <<>> /\ footprints = <<>> /\ parts = <<>> /\ storeys = <<>> /\ gfa = <<>>
    /\ min_rect \in {[length |-> l, intersection |-> rows] :
                        l \in MinRectLengths, rows \in SeqsUpTo(OverlayRows, MaxRoadRows)}
    /\ edge_types = NoEdgeTypes
    /\ height_regs = <<>> /\ lha = <<>>
    /\ plots = <<>> /\ gpr_runs = <<>> /\ neighbor_links = {} /\ regs = <<>>

NextEdgeTypes ==
    \/ IntersectRoadsWithEdges
    \/ SetMinRectEdgeTypes
    \/ IsCornerPlot
    \/ ClassifyMinRectEdges

SpecEdgeTypes == InitEdgeTypes /\ [][NextEdgeTypes]_vars

\* ---------------------------------------------------------------- C12
Classified == pc \in {"corner_call", "corner_done", "classified"}

\* C12: for every parcel to which set_min_rect_edge_types or
\* classify_min_rect_edges assigns a front edge, exactly one of the four
\* edge indices is front, at most one is rear, the rear index differs from
\* the front index, and the side edges are exactly {0,1,2,3} minus
\* {front, rear}: the three classes are pairwise disjoint and cover all four.
C12_EdgeTypesPartition ==
    (Classified /\ edge_types.min_rect_front_edge # NaN) =>
        LET front == {edge_types.min_rect_front_edge}
            rear == {edge_types.min_rect_rear_edge} \ {NaN}
            side == edge_types.min_rect_side_edges
        IN /\ front \subseteq MinRectOrders
           /\ rear \subseteq MinRectOrders
           /\ front \cap rear = {}
           /\ side = MinRectOrders \ (front \cup rear)
           /\ front \cap side = {} /\ rear \cap side = {}
           /\ front \cup rear \cup side = MinRectOrders

\* a square parcel classified by either function: the rear edge is then next
\* to the front edge, and two side edges remain
C12_Witness ==
    /\ Classified
    /\ edge_types.min_rect_front_edge = 1
    /\ edge_types.min_rect_rear_edge = 0
    /\ edge_types.min_rect_side_edges = {2, 3}
    /\ pc = "classified"

\* ---------------------------------------------------------------- C13
\* edges of the bounding rectangle that share a corner
Adjacent(e, f) == (e - f) % 2 = 1

\* the front edge and an edge next to it each lie in a neighbouring road
\* parcel on more than 0.3 of their buffered area
AbutsTwoRoads ==
    /\ edge_types.min_rect_front_edge # NaN
    /\ LET order == road_edges(min_rect.intersection, min_rect.length, OverlapRatio)
       IN /\ edge_types.min_rect_front_edge \in order
          /\ \E e \in order : Adjacent(e, edge_types.min_rect_front_edge)

\* C13: for every residential parcel abutting two roads (front edge and one
\* adjacent edge each overlapping neighbouring road parcels on more than 0.3
\* of their buffered area) is_corner_plot sets the corner flag to true,
\* whatever the edge lengths of the bounding rectangle.
C13_CornerFlag ==
    (pc = "corner_done" /\ AbutsTwoRoads) => edge_types.is_corner_plot = "True"

\* ---------------------------------------------------------------- C14
\* the edges with a row in the frame handed to set_min_rect_edge_types
RoadFacing == {min_rect.intersection[k].order : k \in 1..Len(min_rect.intersection)}

\* the largest area an edge's buffer shares with one neighbouring road parcel
RoadArea(e) ==
    SetMax({min_rect.intersection[k].intersection_area :
               k \in {j \in 1..Len(min_rect.intersection) : min_rect.intersection[j].order = e}})

\* C14: for every parcel with an edge whose buffer intersects a neighbouring
\* road parcel, the front edge chosen by set_min_rect_edge_types is an edge
\* with the largest road-intersection area, and among the edges with that
\* area a longest one; a parcel with no such edge gets no front edge and no
\* side edges.
C14_FrontIsLargestOverlap ==
    pc \in {"corner_call", "corner_done"} =>
        IF RoadFacing # {}
        THEN LET front == edge_types.min_rect_front_edge
             IN /\ front \in RoadFacing
                /\ \A e \in RoadFacing :
                      \/ RoadArea(e) < RoadArea(front)
                      \/ RoadArea(e) = RoadArea(front)
                         /\ min_rect.length[e] <= min_rect.length[front]
        ELSE /\ edge_types.min_rect_front_edge = NaN
             /\ edge_types.min_rect_side_edges = NaN

\* two edges of different length share the largest area, the shorter one
\* comes first in the frame, and the longer one is the front edge
C14_Witness ==
    /\ pc = "corner_call"
    /\ Len(min_rect.intersection) = 2
    /\ LET first == min_rect.intersection[1]
           second == min_rect.intersection[2]
       IN /\ first.intersection_area = second.intersection_area
          /\ min_rect.length[first.order] < min_rect.length[second.order]
          /\ edge_types.min_rect_front_edge = second.order

\* -------------------------------------------------- get_buildable_storeys
\* Absolute heights are counted in tenths of a metre.
\* lines 1271-1272, 1277: 3.6 m per storey in residential zones, else 5.0 m
storey_height(p) == IF p.zone_residential THEN 36 ELSE 50

\* np.nanmin and Series.min(): the smallest value that is not NaN
NanMin(values) == PyMin(DropNa(values), NaN)

\* line 1239: the share of the parcel above which the uncovered rest is a part
RemainderShare == 1

\* lines 1221-1244 without line 1242, the remaining part given no storeys entry
get_plot_parts_without_storeys(cur_reg_type, storey_regs, p) ==
    LET cur_reg == SelectSeq(storey_regs, LAMBDA r : r.reg_type = cur_reg_type)
        reg_parts == SelectSeq(cur_reg, LAMBDA r : r.geometry \cap p.geometry # {})
        reg_geoms == [k \in 1..Len(reg_parts) |-> reg_parts[k].geometry \cap p.geometry]
        reg_storeys == [k \in 1..Len(reg_parts) |-> reg_parts[k].storeys]
        remaining_part == p.geometry \ UNION {reg_geoms[k] : k \in 1..Len(reg_geoms)}
    IN IF Len(cur_reg) = 0 THEN [storeys |-> <<>>, parts |-> <<p.geometry>>]
       ELSE IF remaining_part = {} THEN [storeys |-> reg_storeys, parts |-> reg_geoms]
       ELSE IF Area(remaining_part) * RatioScale > RemainderShare * Area(p.geometry)
       THEN [storeys |-> reg_storeys, parts |-> Append(reg_geoms, remaining_part)]
       ELSE [storeys |-> reg_storeys, parts |-> reg_geoms]

\* lines 1221-1244; used_regs only names HeightControlPlan and
\* UrbanDesignGuideline rows, which the later steps do not read
get_plot_parts(cur_reg_type, storey_regs, p) ==
    LET cur_reg == SelectSeq(storey_regs, LAMBDA r : r.reg_type = cur_reg_type)
        reg_parts == SelectSeq(cur_reg, LAMBDA r : r.geometry \cap p.geometry # {})
        reg_geoms == [k \in 1..Len(reg_parts) |-> reg_parts[k].geometry \cap p.geometry]
        reg_storeys == [k \in 1..Len(reg_parts) |-> reg_parts[k].storeys]
        remaining_part == p.geometry \ UNION {reg_geoms[k] : k \in 1..Len(reg_geoms)}
    IN IF Len(cur_reg) = 0 THEN [storeys |-> <<>>, parts |-> <<p.geometry>>]
       ELSE IF remaining_part = {} THEN [storeys |-> reg_storeys, parts |-> reg_geoms]
       ELSE IF Area(remaining_part) * RatioScale > RemainderShare * Area(p.geometry)
       THEN [storeys |-> Append(reg_storeys, Inf), parts |-> Append(reg_geoms, remaining_part)]
       ELSE [storeys |-> reg_storeys, parts |-> reg_geoms]

\* lines 1266, 1279: the linked rows with a storey count or an absolute height
cur_height_regs(rows) == SelectSeq(rows, LAMBDA r : r.storeys # NaN \/ r.abs_height # NaN)

\* lines 1297-1299: storeys = abs_height // storey_height where a height is given
height_to_storeys(rows, p) ==
    [k \in 1..Len(rows) |->
        IF rows[k].abs_height # NaN
        THEN [rows[k] EXCEPT !.storeys = rows[k].abs_height \div storey_height(p)]
        ELSE rows[k]]

\* lines 1284-1303: UrbanDesignGuideline rows when there are any, else
\* HeightControlPlan rows
plot_parts(rows, p) ==
    IF \E k \in 1..Len(rows) : rows[k].reg_type = "UrbanDesignGuideline"
    THEN get_plot_parts("UrbanDesignGuideline", rows, p)
    ELSE IF \E k \in 1..Len(rows) : rows[k].reg_type = "HeightControlPlan"
    THEN get_plot_parts("HeightControlPlan", height_to_storeys(rows, p), p)
    ELSE [storeys |-> <<Inf>>, parts |-> <<p.geometry>>]

\* lines 1320-1325
storey_limits(cur_dcp, cur_lha, cur_sbp, part_storeys) ==
    [programme \in {cur_dcp[k].programme : k \in 1..Len(cur_dcp)} |->
        LET own == SelectSeq(cur_dcp, LAMBDA r : r.programme = programme)
            min_storeys == NanMin(<<Inf, cur_lha, cur_sbp>> \o Column(own, "storeys"))
        IN [i \in 1..Len(part_storeys) |-> PyMin(<<min_storeys, part_storeys[i]>>, None)]]

\* lines 1274-1334, one parcel
GetBuildableStoreys ==
    /\ pc = "storeys_call"
    /\ LET split == plot_parts(cur_height_regs(height_regs), plot)
           cur_lha == IF Len(lha) > 0 THEN NanMin(lha) ELSE Inf
           cur_sbp == IF Len(sbp) > 0 THEN NanMin(Column(sbp, "storeys")) ELSE Inf
       IN /\ storeys' = storey_limits(ResidentialFilter(dcp), cur_lha, cur_sbp, split.storeys)
          /\ parts' = split.parts
    /\ pc' = "storeys_done"
    /\ UNCHANGED <<partVars, tableVars, edge_setbacks, footprints, gfa, prepVars>>

\* ------------------------------------------ calls of get_buildable_storeys
MaxHeightRegs == 2

\* a regulation covers the whole parcel or its first cell
RegGeoms == {Rect(PlotCells, 1), Rect(1, 1)}

\* rows of hcp_udg (line 1264): UrbanDesignGuideline rows have no abs_height
HeightRegRows ==
    [reg_type : {"UrbanDesignGuideline"}, storeys : {1, MaxStoreys}, abs_height : {NaN},
     geometry : RegGeoms]
    \cup [reg_type : {"HeightControlPlan"}, storeys : {NaN, 1, MaxStoreys}, abs_height : {NaN, 80},
          geometry : RegGeoms]

StoreysDcpTables ==
    {<<[DcpRow(p, NaN, RatioScale) EXCEPT !.storeys = v]>> :
        p \in {"Bungalow", "Flat"}, v \in {NaN, 1, MaxStoreys}}

StoreysSbpTables ==
    {<<>>} \cup {<<[SbpGprRow(NaN) EXCEPT !.storeys = v]>> : v \in {NaN, MaxStoreys - 1}}

InitStoreys ==
    /\ pc = "storeys_call"
    /\ args = NoArgs /\ part_gfa = NaN
    /\ plot \in {[NoPlot EXCEPT !.geometry = Rect(PlotCells, 1), !.zone_residential = z,
                                !.allowed_residential_types = {"Bungalow"}] : z \in BOOLEAN}
    /\ dcp \in StoreysDcpTables
    /\ sbp \in StoreysSbpTables
    /\ road_cats = <<>> /\ udg_edges = <<>>
    /\ edge_setbacks = <<>> /\ footprints = <<>> /\ parts = <<>> /\ storeys = <<>> /\ gfa = <<>>
    /\ min_rect = NoMinRect /\ edge_types = NoEdgeTypes
    /\ height_regs \in SeqsUpTo(HeightRegRows, MaxHeightRegs)
    /\ lha \in {<<>>, <<MaxStoreys - 1>>}
    /\ plots = <<>> /\ gpr_runs = <<>> /\ neighbor_links = {} /\ regs = <<>>

NextStoreys == GetBuildableStoreys

SpecStoreys == InitStoreys /\ [][NextStoreys]_vars

\* ---------------------------------------------------------------- C15
\* the storey limits a height-control plan or urban-design guideline states
HeightLimits(r) ==
    ({r.storeys} \ {NaN})
    \cup (IF r.abs_height # NaN THEN {r.abs_height \div storey_height(plot)} ELSE {})

\* the storey limits of all regulations applying to a part, for a programme
LimitsOn(part, programme) ==
    UNION {HeightLimits(height_regs[k]) :
              k \in {j \in 1..Len(height_regs) : height_regs[j].geometry \cap part # {}}}
    \cup ({lha[k] : k \in 1..Len(lha)} \ {NaN})
    \cup ({sbp[k].storeys : k \in 1..Len(sbp)} \ {NaN})
    \cup ({r.storeys : r \in RowsOf(programme)} \ {NaN})

\* C15: for every parcel, part and programme the allowed-storeys value of
\* get_buildable_storeys is the minimum of the storey limits of all
\* regulations applying to the part (height-control plans, urban-design
\* guidelines, landed-housing areas, street-block plans and the programme's
\* development-control plans); where a height-control plan and an
\* urban-design guideline both cover the part, the lower of the two governs.
C15_StoreysAreMinimum ==
    pc = "storeys_done" =>
        \A programme \in DOMAIN storeys :
            \A i \in DOMAIN storeys[programme] \cap 1..Len(parts) :
                storeys[programme][i] = SetMin(LimitsOn(parts[i], programme) \cup {Inf})

\* ------------- set_plot_edge_setbacks with several rows of one programme
\* Several DevelopmentControlPlan instances of the same programme are linked
\* to the parcel; their rows are in table order.
SameProgrammeRows == MaxDcpRows + 1

SameProgrammeDcpTables ==
    {[k \in 1..SameProgrammeRows |-> [DcpRow(p, NaN, RatioScale) EXCEPT !.setback = v[k]]] :
        p \in SetbackProgrammes, v \in [1..SameProgrammeRows -> 0..MaxSetback]}

InitSetbackRows ==
    /\ pc = "setbacks_call"
    /\ args = NoArgs /\ part_gfa = NaN
    /\ PrepIdle
    /\ plot \in SetbackPlots
    /\ dcp \in SameProgrammeDcpTables
    /\ sbp = <<>>
    /\ road_cats \in RoadCategoryTables
    /\ udg_edges = <<>>
    /\ edge_setbacks = <<>> /\ footprints = <<>> /\ parts = <<>> /\ storeys = <<>>
    /\ gfa = <<>>

NextSetbackRows == SetPlotEdgeSetbacks

SpecSetbackRows == InitSetbackRows /\ [][NextSetbackRows]_vars

\* ---------------------------------------------------------------- C16
\* C16: when several development-control-plan instances of the same
\* programme apply to one parcel the widest governs: on every edge not forced
\* to 0 by the party-wall override the setback resolved for the programme is
\* at least the largest base setback among those instances, whatever the
\* order of the regulation rows.
C16_WidestBaseSetback ==
    pc = "setbacks_done" =>
        \A programme \in DOMAIN edge_setbacks :
            \A edge \in (1..plot.edges) \ partywall_edges(plot, programme) :
                edge_setbacks[programme][edge] >= SetMax({r.setback : r \in RowsOf(programme)})

\* ---------------------------------------------------------------- C17
\* the setbacks of the programme leave nothing of the parcel
EmptyAtEveryStorey(programme) ==
    create_setback_area(plot.edges, edge_setbacks[programme], plot.geometry) = {}

\* C17: a storey whose setback subtraction leaves an empty footprint
\* contributes 0 to the programme's GFA and is not treated as missing data;
\* a programme whose footprint is empty at every storey has GFA 0, not parcel
\* area x plot ratio and not unknown.
C17_EmptyFootprintIsZero ==
    pc = "gfa_done" =>
        \A programme \in DOMAIN gfa \cap DOMAIN edge_setbacks :
            EmptyAtEveryStorey(programme) => gfa[programme] = 0

\* -------------------------------------------------------------- assign_gpr
\* A parcel row has the columns zone, gpr, neighbour (ids; {} stands for the
\* NaN left by the merge of get_neighbours), reg_types (the types of its
\* regulation links), sbp_gprs (the gpr of each StreetBlockPlan row linked to
\* it, in table order) and context_storeys.  Plot ratios are counted in
\* 1/RatioScale.
Tenths(n) == (n * RatioScale) \div 10

\* lines 572-574: round(neighbour_gprs.mean(), 1), halves to the even digit
RoundedMean(values) ==
    LET total == SumSeq(values)
        n == Len(values)
        q == total \div n
        r == total % n
    IN IF 2 * r > n \/ (2 * r = n /\ q % 2 = 1) THEN q + 1 ELSE q

RECURSIVE SetToSeq(_)
SetToSeq(S) == IF S = {} THEN <<>> ELSE LET x == CHOOSE y \in S : TRUE IN <<x>> \o SetToSeq(S \ {x})

\* lines 565-574
get_context_gpr(neighbours, gpr_map) ==
    LET neighbour_gprs == DropNa([k \in 1..Len(neighbours) |->
                                     IF neighbours[k] \in DOMAIN gpr_map
                                     THEN gpr_map[neighbours[k]] ELSE NaN])
    IN IF Len(neighbour_gprs) > 0 THEN RoundedMean(neighbour_gprs) ELSE NaN

\* lines 679-681: the three calls of assign_gpr
ZoneGprCalls ==
    << [zone_type |-> "PlaceOfWorship", in_lha_gpr |-> Tenths(10), fringe_gpr |-> Tenths(14),
        in_context_gpr |-> Tenths(16), fringe_storeys |-> 4, context_storeys |-> 5],
       [zone_type |-> "EducationalInstitution", in_lha_gpr |-> Tenths(10), fringe_gpr |-> Tenths(10),
        in_context_gpr |-> Tenths(14), fringe_storeys |-> 3, context_storeys |-> 4],
       [zone_type |-> "CivicAndCommunityInstitutionZone", in_lha_gpr |-> Tenths(10),
        fringe_gpr |-> Tenths(14), in_context_gpr |-> Tenths(14), fringe_storeys |-> 3,
        context_storeys |-> 4] >>

lha_names == {"LandedHousingArea", "GoodClassBungalowArea"}

industrial_zones == {"Business1", "Business2", "BusinessPark"}

\* lines 612-637: the row of one target parcel after the loop body; table is
\* the frame at the start of the call (gpr_map, neighbour_map)
zone_gpr_row(i, table, call) ==
    LET row == table[i]
        context_gpr == get_context_gpr(SetToSeq(row.neighbour), [j \in DOMAIN table |-> table[j].gpr])
        has_industrial_neighbours ==
            {table[j].zone : j \in row.neighbour \cap DOMAIN table} \cap industrial_zones # {}
        in_ca == "CentralArea" \in row.reg_types
        in_lha == row.reg_types \cap lha_names # {}
        in_lha_fringe ==
            \E j \in row.neighbour \cap DOMAIN table : table[j].reg_types \cap lha_names # {}
        in_industrial_zone == call.zone_type \in industrial_zones
        low_context == context_gpr # NaN /\ context_gpr <= Tenths(14)
        high_context == context_gpr # NaN /\ context_gpr > Tenths(14)
    IN IF in_lha /\ low_context
       THEN [row EXCEPT !.gpr = call.in_lha_gpr, !.context_storeys = lha[1]]
       ELSE IF in_lha_fringe /\ low_context
       THEN [row EXCEPT !.gpr = call.fringe_gpr, !.context_storeys = call.fringe_storeys]
       ELSE IF high_context \/ has_industrial_neighbours \/ in_industrial_zone
       THEN [row EXCEPT !.gpr = call.in_context_gpr, !.context_storeys = call.context_storeys]
       ELSE IF in_ca THEN [row EXCEPT !.gpr = NaN]
       ELSE row

\* line 614 on a neighbour value that is NaN: reindex(nan) raises TypeError;
\* line 620 on a parcel without regulation links: pd.DataFrame()['reg_type']
\* raises KeyError
zone_gpr_error(table, call) ==
    LET failing == {i \in DOMAIN table :
                       /\ table[i].zone = call.zone_type
                       /\ table[i].neighbour = {} \/ table[i].reg_types = {}}
    IN IF failing = {} THEN "none"
       ELSE LET first == CHOOSE i \in failing : \A j \in failing : i <= j
            IN IF table[first].neighbour = {} THEN "TypeError" ELSE "KeyError"

\* lines 578-639
assign_zone_gpr(table, call) ==
    [i \in DOMAIN table |->
        IF table[i].zone = call.zone_type THEN zone_gpr_row(i, table, call) ELSE table[i]]

MaxRuns == 2

MaxSbpRows == 2

\* lines 670-679: a run of assign_gpr starts from the parcel table as loaded
AssignGpr ==
    /\ pc \in {"assign_gpr_call", "gpr_done"}
    /\ Len(gpr_runs) < MaxRuns
    /\ gpr_runs' = Append(gpr_runs, plots)
    /\ pc' = "zone_gpr_1"
    /\ UNCHANGED <<partVars, tableVars, columnVars, classVars, height_regs, lha, plots, neighbor_links, regs>>

ZoneGprStages == <<"zone_gpr_1", "zone_gpr_2", "zone_gpr_3">>

\* lines 578-639, for the k-th call of assign_gpr
AssignZoneGpr ==
    \E k \in 1..Len(ZoneGprCalls) :
        /\ pc = ZoneGprStages[k]
        /\ LET run == Len(gpr_runs)
               error == zone_gpr_error(gpr_runs[run], ZoneGprCalls[k])
           IN IF error # "none"
              THEN pc' = error /\ gpr_runs' = gpr_runs
              ELSE /\ gpr_runs' = [gpr_runs EXCEPT ![run] = assign_zone_gpr(@, ZoneGprCalls[k])]
                   /\ pc' = IF k < Len(ZoneGprCalls) THEN ZoneGprStages[k + 1] ELSE "sbp_gpr"
        /\ UNCHANGED <<partVars, tableVars, columnVars, classVars, height_regs, lha, plots, neighbor_links, regs>>

\* lines 656-665: the row of one parcel linked to a street-block plan, for
\* the row of sbp that sample() drew
sbp_gpr_row(row, sbp_gpr) ==
    IF sbp_gpr # NaN /\ row.gpr = NaN THEN [row EXCEPT !.gpr = sbp_gpr]
    ELSE IF sbp_gpr # NaN /\ row.gpr # NaN
    THEN [row EXCEPT !.gpr = PyMin(<<sbp_gpr, row.gpr>>, None)]
    ELSE row

\* lines 642-667: Series.sample() draws one of the linked rows at random, for
\* each parcel, from the unseeded global generator
AssignSbpGpr ==
    /\ pc = "sbp_gpr"
    /\ LET run == Len(gpr_runs)
           table == gpr_runs[run]
           targets == {i \in DOMAIN table : Len(table[i].sbp_gprs) > 0}
       IN \E draw \in [targets -> 1..MaxSbpRows] :
             /\ \A i \in targets : draw[i] <= Len(table[i].sbp_gprs)
             /\ gpr_runs' = [gpr_runs EXCEPT ![run] =
                    [i \in DOMAIN table |->
                        IF i \in targets THEN sbp_gpr_row(table[i], table[i].sbp_gprs[draw[i]])
                        ELSE table[i]]]
    /\ pc' = "gpr_done"
    /\ UNCHANGED <<partVars, tableVars, columnVars, classVars, height_regs, lha, plots, neighbor_links, regs>>

\* ------------------------------------------------------ runs of assign_gpr
MaxPlots == 2

\* parcel i lies next to parcels i - 1 and i + 1 when the parcels are adjacent
Neighbours(i, adjacent) == IF adjacent THEN {i - 1, i + 1} \cap (1..MaxPlots) ELSE {}

\* the street-block-plan rows linked to a parcel: none, one without a plot
\* ratio, or rows of several plans with different plot ratios
SbpGprLists == {<<>>, <<NaN>>, [k \in 1..MaxSbpRows |-> k * RatioScale]}

\* parcel 1 is institutional; the other parcels are its context
InstitutionRows(adjacent) ==
    [zone : {"PlaceOfWorship", "EducationalInstitution", "CivicAndCommunityInstitutionZone"},
     gpr : {NaN, RatioScale, 2 * RatioScale},
     neighbour : {Neighbours(1, adjacent)},
     reg_types : {{}, {"PlanningBoundary"}, {"LandedHousingArea"}, {"CentralArea"}},
     sbp_gprs : SbpGprLists,
     context_storeys : {NaN}]

ContextRows(i, adjacent) ==
    [zone : {"Business1", "Residential"},
     gpr : {NaN, RatioScale, 2 * RatioScale},
     neighbour : {Neighbours(i, adjacent)},
     reg_types : {{"PlanningBoundary"}, {"LandedHousingArea"}},
     sbp_gprs : {<<>>},
     context_storeys : {NaN}]

PlotTables ==
    UNION {{t \in [1..MaxPlots -> InstitutionRows(adjacent)
                                  \cup UNION {ContextRows(i, adjacent) : i \in 2..MaxPlots}] :
               /\ t[1] \in InstitutionRows(adjacent)
               /\ \A i \in 2..MaxPlots : t[i] \in ContextRows(i, adjacent)} :
           adjacent \in BOOLEAN}

InitGpr ==
    /\ pc = "assign_gpr_call"
    /\ args = NoArgs /\ part_gfa = NaN
    /\ plot = NoPlot
    /\ dcp = <<>> /\ sbp = <<>> /\ road_cats = <<>> /\ udg_edges = <<>>
    /\ edge_setbacks = <<>> /\ footprints = <<>> /\ parts = <<>> /\ storeys = <<>> /\ gfa = <<>>
    /\ min_rect = NoMinRect /\ edge_types = NoEdgeTypes
    /\ height_regs = <<>>
    /\ lha = <<MaxStoreys - 1>>
    /\ plots \in PlotTables
    /\ gpr_runs = <<>> /\ neighbor_links = {} /\ regs = <<>>

NextGpr == AssignGpr \/ AssignZoneGpr \/ AssignSbpGpr

SpecGpr == InitGpr /\ [][NextGpr]_vars

\* ---------------------------------------------------------------- C18
\* a call of assign_zone_gpr that returned
ZoneGprReturned ==
    /\ pc \in {ZoneGprStages[k] : k \in 1..Len(ZoneGprStages)}
    /\ pc' \in {ZoneGprStages[k] : k \in 2..Len(ZoneGprStages)} \cup {"sbp_gpr"}

\* C18: assign_zone_gpr only fills missing values: every parcel whose plot
\* ratio is defined before the call has the same plot ratio after the call.
C18_ZoneGprFillsMissingOnly ==
    [][ZoneGprReturned =>
          \A i \in DOMAIN plots :
              gpr_runs[Len(gpr_runs)][i].gpr # NaN =>
                  gpr_runs'[Len(gpr_runs)][i].gpr = gpr_runs[Len(gpr_runs)][i].gpr]_vars

\* ---------------------------------------------------------------- C19
\* C19: the engine is deterministic: two runs of plot-ratio assignment on
\* the same parcel, regulation and link tables give every parcel the same
\* plot ratio, also a parcel whose linked street-block-plan rows carry
\* different plot ratios.
C19_RunsAgree ==
    pc = "gpr_done" =>
        \A r \in 1..Len(gpr_runs) : \A i \in DOMAIN plots :
            gpr_runs[r][i].gpr = gpr_runs[1][i].gpr

\* ------------------------------------------------- get_neighbor_links
\* Parcel geometries are sets of square cells <<x, y>>; CellsPerMetre cells
\* make one metre, so a cell covers 1 / CellsPerMetre^2 square metres.
CellsPerMetre == 2

\* plots.buffer(2, cap_style=3): the buffer distance in metres
BufferDistance == 2

\* df['area'] > 1: the smallest overlap, in square metres, that is not kept
MinLinkArea == 1

\* the cells of a window that lie wholly within distance d (in cells) of the
\* geometry g: corners are rounded (the default join style), so a cell that
\* is dx columns and dy rows away from a cell of g is covered up to its far
\* corner when dx^2 + dy^2 <= d^2
buffer(g, d, window) ==
    {c \in window :
        \E a \in g : (c[1] - a[1]) * (c[1] - a[1]) + (c[2] - a[2]) * (c[2] - a[2]) <= d * d}

\* the cells a buffered geometry can reach
Window(table) ==
    LET cells == UNION {table[i].geometry : i \in DOMAIN table}
        d == BufferDistance * CellsPerMetre
        xs == {c[1] : c \in cells}
        ys == {c[2] : c \in cells}
    IN  {<<x, y>> : x \in (SetMin(xs) - d)..(SetMax(xs) + d),
                    y \in (SetMin(ys) - d)..(SetMax(ys) + d)}

\* plots.buffer(2, cap_style=3)
buffered(table, i) ==
    buffer(table[i].geometry, BufferDistance * CellsPerMetre, Window(table))

\* gpd.overlay(plots, all_plots, how='intersection') and the area filter: the
\* pairs <<plots, context_plots>> whose overlap exceeds MinLinkArea; all_plots
\* holds the geometries as they were before the buffer
get_neighbor_links(table) ==
    {<<table[pair[1]].plots, table[pair[2]].plots>> :
        pair \in {link \in (DOMAIN table) \X (DOMAIN table) :
                     Cardinality(buffered(table, link[1]) \cap table[link[2]].geometry)
                         > MinLinkArea * CellsPerMetre * CellsPerMetre}}

\* get_neighbor_links(plots): the rows are returned and the geometry column
\* of the caller's frame is replaced by the buffered geometries
GetNeighborLinks ==
    /\ pc = "neighbor_links_call"
    /\ neighbor_links' = get_neighbor_links(plots)
    /\ plots' = [i \in DOMAIN plots |->
                    [plots[i] EXCEPT !.geometry = buffered(plots, i)]]
    /\ pc' = "neighbor_links_done"
    /\ UNCHANGED <<partVars, tableVars, columnVars, classVars, height_regs, lha, gpr_runs, regs>>

\* two parcels one above the other: the first at the origin, the second
\* above it after a gap, shifted sideways by an offset
Block(x0, y0, w, h) == {<<x, y>> : x \in (x0 + 1)..(x0 + w), y \in (y0 + 1)..(y0 + h)}

ParcelSides == {1, BufferDistance * CellsPerMetre + 1}
ParcelDepths == {1, BufferDistance * CellsPerMetre}
ParcelOffsets == {0, BufferDistance}
ParcelGaps == 0..(BufferDistance * CellsPerMetre)

ParcelPairs ==
    {<<[plots |-> 1, geometry |-> Block(0, 0, wa, ha)],
       [plots |-> 2, geometry |-> Block(off, ha + gap, wb, hb)]>> :
        wa \in ParcelSides, ha \in ParcelDepths, wb \in ParcelSides, hb \in ParcelDepths,
        off \in ParcelOffsets, gap \in ParcelGaps}

InitNeighbors ==
    /\ pc = "neighbor_links_call"
    /\ args = NoArgs /\ part_gfa = NaN
    /\ plot = NoPlot
    /\ dcp = <<>> /\ sbp = <<>> /\ road_cats = <<>> /\ udg_edges = <<>>
    /\ edge_setbacks = <<>> /\ footprints = <<>> /\ parts = <<>> /\ storeys = <<>> /\ gfa = <<>>
    /\ min_rect = NoMinRect /\ edge_types = NoEdgeTypes
    /\ height_regs = <<>> /\ lha = <<>>
    /\ plots \in ParcelPairs
    /\ gpr_runs = <<>> /\ neighbor_links = {} /\ regs = <<>>

NextNeighbors == GetNeighborLinks

SpecNeighbors == InitNeighbors /\ [][NextNeighbors]_vars

\* ---------------------------------------------------------------- C20
\* C20: the neighbour relation produced by get_neighbor_links is symmetric:
\* for all distinct parcels A and B, B is reported as a neighbour of A if
\* and only if A is reported as a neighbour of B.
C20_NeighboursSymmetric ==
    pc = "neighbor_links_done" =>
        \A a \in DOMAIN plots : \A b \in DOMAIN plots :
            a # b =>
                (<<plots[a].plots, plots[b].plots>> \in neighbor_links
                    <=> <<plots[b].plots, plots[a].plots>> \in neighbor_links)

\* ---------------------------------------------------------------- C21
\* C21: no parcel is its own neighbour: the links returned by
\* get_neighbor_links contain no pair (p, p), for every parcel p.
C21_NoSelfLinks ==
    pc = "neighbor_links_done" =>
        \A i \in DOMAIN plots : <<plots[i].plots, plots[i].plots>> \notin neighbor_links

\* ---------------------------------------------------------------- C30
\* C30: get_neighbor_links leaves the parcel table passed to it unchanged:
\* after the call every parcel of the caller's table has the same geometry
\* as before.
C30_GeometryUnchanged ==
    [][pc = "neighbor_links_call" /\ pc' = "neighbor_links_done" =>
          \A i \in DOMAIN plots : plots'[i].geometry = plots[i].geometry]_vars

\* ---------------------------------------------------------------- C22
\* a programme with an unconstrained allowed-storeys value on some part
Unconstrained(programme) ==
    /\ programme \in DOMAIN storeys
    /\ \E i \in 1..Len(storeys[programme]) : storeys[programme][i] = Inf

\* C22: for every parcel and programme for which at least one part carries
\* an unconstrained (infinite) allowed-storeys value, compute_plot_gfa
\* resolves the GFA by plot ratio alone: parcel area x the smallest defined
\* ratio when a ratio exists and the unknown marker otherwise, never an
\* infinite value, and the call returns.
C22_UnconstrainedByRatioAlone ==
    pc \in {"gfa_done", "KeyError"} =>
        \A programme \in DOMAIN footprints :
            Unconstrained(programme) =>
                /\ pc = "gfa_done"
                /\ gfa[programme] < Inf
                /\ gfa[programme] = IF DefinedRatios(programme) # {}
                                    THEN RatioCeiling(programme)
                                    ELSE NaN

\* a parcel in two parts, one unconstrained and one with a finite number of
\* storeys, footprints on record and a defined ratio
C22_Witness ==
    /\ pc = "gfa_done"
    /\ Len(parts) = 2
    /\ \E programme \in DOMAIN gfa :
          /\ Unconstrained(programme)
          /\ \E i \in 1..Len(storeys[programme]) : storeys[programme][i] \in 1..MaxStoreys
          /\ Len(footprints[programme]) > 0
          /\ DefinedRatios(programme) # {}
          /\ gfa[programme] = RatioCeiling(programme)
          /\ gfa[programme] > 0

\* ------------------------- setbacks and footprints of a street-block plan
\* The footprints are derived from the column 'edge_setbacks' that
\* set_plot_edge_setbacks wrote (line 1133, read at line 1170).
PassEdgeSetbacks ==
    /\ pc = "setbacks_done"
    /\ pc' = "footprints_call"
    /\ UNCHANGED <<prepVars, partVars, tableVars, columnVars>>

\* a rectangular parcel with its front edge at the bottom, its rear edge at
\* the top and its side edges left and right
LevelPlots ==
    {[NoPlot EXCEPT !.geometry = Rect(w, h), !.edges = RectEdges,
                    !.front_edges = {RectEdges}, !.rear_edges = {2}, !.side_edges = {1, 3}] :
        w \in 1..MaxSide, h \in 1..MaxSide}

SbpLevels == {1, 2}

\* street-block-plan rows of one setback type, one row per level, in either
\* table order
LevelSbpTables ==
    {<<>>} \cup
    {<<[gpr |-> NaN, setback_type |-> t, level |-> lv[1], setback |-> v[lv[1]], storeys |-> NaN],
       [gpr |-> NaN, setback_type |-> t, level |-> lv[2], setback |-> v[lv[2]], storeys |-> NaN]>> :
        t \in {"FrontSetback", "SideSetback", "RearSetback"},
        lv \in {<<1, 2>>, <<2, 1>>},
        v \in [SbpLevels -> 0..MaxSetback]}

InitLevels ==
    /\ pc = "setbacks_call"
    /\ args = NoArgs /\ part_gfa = NaN
    /\ PrepIdle
    /\ plot \in LevelPlots
    /\ dcp \in {<<[DcpRow("Flat", NaN, RatioScale) EXCEPT !.setback = v]>> : v \in 0..MaxSetback}
    /\ sbp \in LevelSbpTables
    /\ road_cats = <<>> /\ udg_edges = <<>>
    /\ edge_setbacks = <<>> /\ footprints = <<>> /\ parts = <<>> /\ storeys = <<>>
    /\ gfa = <<>>

NextLevels == SetPlotEdgeSetbacks \/ PassEdgeSetbacks \/ GetBuildableFootprints

SpecLevels == InitLevels /\ [][NextLevels]_vars

\* ---------------------------------------------------------------- C23
\* the footprint of a level, with the street-block-plan setbacks of that level
LevelFootprint(programme, level) ==
    create_setback_area(
        plot.edges,
        setback_list_of(dcp[LastRowOf(dcp, programme)], plot,
                        SelectSeq(sbp, LAMBDA r : r.level = level), road_cats, udg_edges),
        plot.geometry)

\* the street-block plan gives the edges of one type different setbacks at
\* different levels, and every level leaves a footprint
LevelsDiffer(programme) ==
    /\ Len(sbp) > 0
    /\ \A level \in SbpLevels : LevelFootprint(programme, level) # {}
    /\ \E k \in SbpLevels, m \in SbpLevels :
          LevelFootprint(programme, k) # LevelFootprint(programme, m)

\* C23: for a parcel in a street-block plan that defines different setbacks
\* at different storey levels, get_buildable_footprints yields one footprint
\* per setback level, positioned at the storey where it applies and computed
\* with the setbacks defined for that level.
C23_FootprintPerLevel ==
    pc = "gfa_call" =>
        \A programme \in DOMAIN footprints :
            LevelsDiffer(programme) =>
                /\ Len(footprints[programme]) = Cardinality(SbpLevels)
                /\ \A level \in SbpLevels :
                      footprints[programme][level] = LevelFootprint(programme, level)

\* --------------------- several site-coverage values for one programme
\* One programme with SameProgrammeRows development-control-plan rows, each
\* with a site coverage that is undefined, a half or the whole parcel; no
\* plot ratio is defined, so the reported GFA is the sum over the parts.
CoverageDcpTables ==
    {[k \in 1..SameProgrammeRows |-> DcpRow("Flat", NaN, c[k])] :
        c \in [1..SameProgrammeRows -> {NaN, RatioScale \div 2, RatioScale}]}

InitCoverage ==
    /\ pc = "gfa_call"
    /\ args = NoArgs /\ part_gfa = NaN
    /\ PrepIdle
    /\ plot = [NoPlot EXCEPT !.geometry = Rect(PlotCells, 1)]
    /\ dcp \in CoverageDcpTables
    /\ sbp = <<>> /\ road_cats = <<>> /\ udg_edges = <<>> /\ edge_setbacks = <<>>
    /\ gfa = <<>>
    /\ \E ps \in PartChoices, fp \in FootprintLists \ {<<>>} :
          \E st \in [1..Len(ps) -> {1, MaxStoreys}] :
              /\ parts = ps
              /\ footprints = [programme \in {"Flat"} |-> fp]
              /\ storeys = [programme \in {"Flat"} |-> st]

NextCoverage == ComputePlotGfa

SpecCoverage == InitCoverage /\ [][NextCoverage]_vars

\* ---------------------------------------------------------------- C24
\* C24: the site-coverage ceiling that compute_plot_gfa uses for a programme
\* is the minimum of the defined site-coverage values of the programme's
\* development-control-plan rows, independent of the order of the rows and
\* of rows whose site coverage is undefined; when no value is defined no cap
\* below the parcel area applies.
C24_SmallestDefinedCoverage ==
    pc = "gfa_done" =>
        \A programme \in DOMAIN gfa :
            DefinedRatios(programme) = {} =>
                gfa[programme] =
                    SumSeq([i \in 1..Len(parts) |->
                        compute_part_gfa(storeys[programme][i],
                                         [k \in 1..Len(footprints[programme]) |->
                                             Area(footprints[programme][k] \cap parts[i])],
                                         Area(plot.geometry),
                                         ClaimedCoverage(programme))])

\* --------------- development-control plans without a target programme
\* OPTIONAL { ?reg opr:forProgramme ... } in get_development_control_plans:
\* a plan without the qualifier has programme NaN, written "nan" here. The
\* parcels are residential, so line 1072 compares the programme with the
\* allowed residential programmes and 'Clinic'.
Unqualified == "nan"

UnqualifiedDcpRows ==
    {[DcpRow(p, NaN, RatioScale) EXCEPT !.setback = v] :
        p \in {"Bungalow", Unqualified}, v \in 0..MaxSetback}

InitUnqualified ==
    /\ pc = "setbacks_call"
    /\ args = NoArgs /\ part_gfa = NaN
    /\ PrepIdle
    /\ plot \in {p \in SetbackPlots : p.zone_residential}
    /\ dcp \in SeqsUpTo(UnqualifiedDcpRows, SameProgrammeRows) \ {<<>>}
    /\ sbp = <<>>
    /\ road_cats \in RoadCategoryTables
    /\ udg_edges = <<>>
    /\ edge_setbacks = <<>> /\ footprints = <<>> /\ parts = <<>> /\ storeys = <<>>
    /\ gfa = <<>>

NextUnqualified == SetPlotEdgeSetbacks

SpecUnqualified == InitUnqualified /\ [][NextUnqualified]_vars

\* ---------------------------------------------------------------- C25
\* the setbacks of the linked plans that name no programme
UnqualifiedSetbacks == {dcp[k].setback : k \in {j \in 1..Len(dcp) : dcp[j].programme = Unqualified}}

\* C25: a development-control plan with no target-programme qualifier that
\* is linked to a residential parcel applies to all programmes of the
\* parcel: set_plot_edge_setbacks gives every allowed residential programme
\* a setback list, and on every edge that is not a party wall the setback is
\* at least the plan's setback.
C25_UnqualifiedPlanApplies ==
    (pc = "setbacks_done" /\ UnqualifiedSetbacks # {}) =>
        \A programme \in plot.allowed_residential_types :
            /\ programme \in DOMAIN edge_setbacks
            /\ \A edge \in (1..plot.edges) \ partywall_edges(plot, programme) :
                  \A v \in UnqualifiedSetbacks : edge_setbacks[programme][edge] >= v

\* ------------------------------------- link_type_regulations_to_plots
\* A type regulation has the columns of get_type_regulations: for_zones,
\* in_area_regs (sets of names), neighbour_zones and for_programme (lists,
\* retrievers.py lines 353-354), in_central_area ("true", "false" or "nan"),
\* the flags for_fringe_plot, for_corner_plot and abuts_road, and the numbers
\* requires_gpr, abuts_gcba and in_gcba (lines 356-357). A parcel row has the
\* columns the conditions read.

\* lines 507-508
has_intersection(list1, list2) == list1 \cap list2 # {}

Elements(list) == {list[k] : k \in 1..Len(list)}

\* lines 517, 520: reg['for_programme'] in [...names]; for_programme is a
\* list and the names are strings, so no element is equal to it
ListAmongNames(list, names) == FALSE

\* lines 549, 551: reg[...] == 'true' on a column converted to numbers
NumberIsTrueString(number) == FALSE

\* x > y on floats: False whenever an operand is NaN
Greater(x, y) == x # NaN /\ y # NaN /\ x > y

\* lines 513-556: the conditions of one regulation on one parcel
applies_to(reg, p, road_list) ==
    /\ p.zone \in reg.for_zones
    /\ ListAmongNames(reg.for_programme,
                      {"Semi-DetachedHouse", "Bungalow", "TerraceType1", "TerraceType2",
                       "GoodClassBungalow"})
          => \E k \in 1..Len(reg.for_programme) :
                 reg.for_programme[k] \in p.allowed_residential_types
    /\ ListAmongNames(reg.for_programme, {"Flat", "Condominium"})
          => IF reg.gpr_function # NaN
             THEN Greater(p.gpr, reg.requires_gpr)
             ELSE p.gpr # NaN /\ p.gpr = reg.requires_gpr
    /\ reg.in_central_area = "true" => Greater(p.in_central_area, 0)
    /\ reg.in_central_area = "false" => ~Greater(p.in_central_area, 0)
    /\ reg.in_area_regs # {}
          => has_intersection(p.in_pb, reg.in_area_regs)
             \/ has_intersection(p.in_lha, reg.in_area_regs)
    /\ reg.for_fringe_plot => p.fringe_plot = "true"
    /\ reg.for_corner_plot => p.corner_plot = "true"
    /\ reg.abuts_road => has_intersection(p.neighbour_road_type, road_list)
    /\ NumberIsTrueString(reg.abuts_gcba) => Greater(p.abuts_gcba, 0)
    /\ NumberIsTrueString(reg.in_gcba) => Greater(p.in_gcba, 0)
    /\ Len(reg.neighbour_zones) > 1
          => has_intersection(p.neighbour_zones, Elements(reg.neighbour_zones))

\* the ids of the parcels in table order, plots.loc[applies_to, 'plots'].tolist()
matching_plots(reg, table, road_list) ==
    Column(SelectSeq(table, LAMBDA p : applies_to(reg, p, road_list)), "plots")

RoadList == {"Expressway"}

\* lines 503-505 add three flag columns to the parcel table; lines 511-561
\* give every regulation its list of parcels
LinkTypeRegulationsToPlots ==
    /\ pc = "link_call"
    /\ regs' = [k \in DOMAIN regs |->
                   [regs[k] EXCEPT !.applies_to = matching_plots(regs[k], plots, RoadList)]]
    /\ plots' = [i \in DOMAIN plots |->
                    [plots[i] EXCEPT !.in_central_area_flag = Greater(plots[i].in_central_area, 0),
                                     !.fringe_plot_flag = (plots[i].fringe_plot = "true"),
                                     !.corner_plot_flag = (plots[i].corner_plot = "true")]]
    /\ pc' = "link_done"
    /\ UNCHANGED <<partVars, tableVars, columnVars, classVars, height_regs, lha, gpr_runs,
                   neighbor_links>>

ContextZones == {"Business1", "Park"}

\* GROUP_CONCAT(DISTINCT ?neighbour_zone): the lists without repetition
ZoneLists ==
    {<<>>} \cup {<<z>> : z \in ContextZones}
           \cup {<<yz[1], yz[2]>> : yz \in {q \in ContextZones \X ContextZones : q[1] # q[2]}}

TypeRegs ==
    {[reg |-> "r", for_zones |-> {"Residential"}, for_programme |-> fp,
      gpr_function |-> NaN, requires_gpr |-> NaN, in_central_area |-> ca,
      in_area_regs |-> {}, for_fringe_plot |-> FALSE, for_corner_plot |-> corner,
      abuts_road |-> FALSE, abuts_gcba |-> NaN, in_gcba |-> NaN,
      neighbour_zones |-> nz, applies_to |-> <<>>] :
        fp \in {<<>>, <<"Bungalow">>}, ca \in {"nan", "true", "false"},
        corner \in BOOLEAN, nz \in ZoneLists}

\* the flag columns do not exist before the call: "nan" stands for that
TypePlots ==
    {[plots |-> 1, zone |-> z, allowed_residential_types |-> {}, gpr |-> NaN,
      in_central_area |-> ca, fringe_plot |-> "nan", corner_plot |-> corner,
      in_pb |-> {}, in_lha |-> {}, neighbour_road_type |-> {},
      abuts_gcba |-> NaN, in_gcba |-> NaN, neighbour_zones |-> nz,
      in_central_area_flag |-> "nan", fringe_plot_flag |-> "nan", corner_plot_flag |-> "nan"] :
        z \in {"Residential", "Park"}, ca \in {0, 1}, corner \in {"true", "nan"},
        nz \in SUBSET ContextZones}

InitLinks ==
    /\ pc = "link_call"
    /\ args = NoArgs /\ part_gfa = NaN
    /\ plot = NoPlot
    /\ dcp = <<>> /\ sbp = <<>> /\ road_cats = <<>> /\ udg_edges = <<>>
    /\ edge_setbacks = <<>> /\ footprints = <<>> /\ parts = <<>> /\ storeys = <<>> /\ gfa = <<>>
    /\ min_rect = NoMinRect /\ edge_types = NoEdgeTypes
    /\ height_regs = <<>> /\ lha = <<>>
    /\ plots \in {<<p>> : p \in TypePlots}
    /\ gpr_runs = <<>> /\ neighbor_links = {}
    /\ regs \in {<<r>> : r \in TypeRegs}

NextLinks == LinkTypeRegulationsToPlots

SpecLinks == InitLinks /\ [][NextLinks]_vars

\* ---------------------------------------------------------------- C26
\* C26: link_type_regulations_to_plots links a type regulation that names
\* required neighbour zones only to parcels having at least one neighbour in
\* one of the named zones, for every non-empty list of named zones,
\* including a list with a single zone.
C26_NeighbourZonesRequired ==
    pc = "link_done" =>
        \A k \in DOMAIN regs :
            Len(regs[k].neighbour_zones) > 0 =>
                \A i \in DOMAIN plots :
                    plots[i].plots \in Elements(regs[k].applies_to) =>
                        plots[i].neighbour_zones \cap Elements(regs[k].neighbour_zones) # {}

\* ---------------------------------------------------------------- C27
\* line 1436: the site-coverage ceiling of a programme
UsedCoverage(programme) ==
    PyMin(Column(SelectSeq(ResidentialFilter(dcp), LAMBDA r : r.programme = programme),
                 "site_coverage"),
          RatioScale)

\* lines 1452-1457: what the call for part i adds for storey k, the part's
\* GFA up to storey k less its GFA up to storey k - 1
StoreyContribution(programme, i, k) ==
    LET areas == [f \in 1..Len(footprints[programme]) |->
                     Area(footprints[programme][f] \cap parts[i])]
        upto(n) == compute_part_gfa(Min(n, storeys[programme][i]), areas,
                                    Area(plot.geometry), UsedCoverage(programme))
    IN upto(k) - upto(k - 1)

\* C27: for a parcel subdivided into several parts, the site-coverage
\* ceiling holds per storey for the parcel as a whole: for every programme
\* and storey, the sum over all parts of the contributions that
\* compute_plot_gfa adds for that storey never exceeds parcel area x
\* site-coverage ceiling.
C27_CoveragePerStorey ==
    pc = "gfa_done" =>
        \A programme \in DOMAIN gfa :
            (HasGfaData(programme) /\ Len(parts) > 1) =>
                \A k \in 1..MaxStoreys :
                    SumSeq([i \in 1..Len(parts) |-> StoreyContribution(programme, i, k)])
                        * RatioScale
                      <= Area(plot.geometry) * UsedCoverage(programme)

\* ------------------------------------------- parts of a parcel
\* Height regulations that cover the whole parcel, its first cell, or ground
\* next to the parcel (linked to it without overlapping it).
PartRegGeoms == RegGeoms \cup {{<<PlotCells + 1, 1>>}}

PartRegRows ==
    [reg_type : {"UrbanDesignGuideline"}, storeys : {1}, abs_height : {NaN},
     geometry : PartRegGeoms]
    \cup [reg_type : {"HeightControlPlan"}, storeys : {MaxStoreys}, abs_height : {NaN},
          geometry : PartRegGeoms]

InitParts ==
    /\ pc = "storeys_call"
    /\ args = NoArgs /\ part_gfa = NaN
    /\ plot \in {[NoPlot EXCEPT !.geometry = Rect(PlotCells, 1), !.zone_residential = z,
                                !.allowed_residential_types = {"Bungalow"}] : z \in BOOLEAN}
    /\ dcp \in StoreysDcpTables
    /\ sbp = <<>>
    /\ road_cats = <<>> /\ udg_edges = <<>>
    /\ edge_setbacks = <<>> /\ footprints = <<>> /\ parts = <<>> /\ storeys = <<>> /\ gfa = <<>>
    /\ min_rect = NoMinRect /\ edge_types = NoEdgeTypes
    /\ height_regs \in SeqsUpTo(PartRegRows, MaxHeightRegs)
    /\ lha = <<>>
    /\ plots = <<>> /\ gpr_runs = <<>> /\ neighbor_links = {} /\ regs = <<>>

NextParts == GetBuildableStoreys

SpecParts == InitParts /\ [][NextParts]_vars

\* ---------------------------------------------------------------- C28
\* C28: after get_buildable_storeys, for every programme in the parcel's
\* storeys table, the list of allowed-storeys values has exactly as many
\* entries as the parcel's list of parts, and the list of parts is never
\* empty.
C28_StoreysMatchParts ==
    pc = "storeys_done" =>
        /\ Len(parts) > 0
        /\ \A programme \in DOMAIN storeys : Len(storeys[programme]) = Len(parts)

\* a parcel cut by a regulation over its first cell, with the rest of the
\* parcel as a second part, and a programme in the storeys table
C28_Witness ==
    /\ pc = "storeys_done"
    /\ Len(parts) = 2
    /\ parts[1] = Rect(1, 1)
    /\ parts[2] = plot.geometry \ parts[1]
    /\ \E programme \in DOMAIN storeys :
          Len(storeys[programme]) = 2 /\ storeys[programme][2] # NaN

\* ---------------------------------------------------------------- C29
\* the bounding rectangle's opposite edges have the same rounded length
OppositeEdgesEqual ==
    \A e \in MinRectOrders : min_rect.length[e] = min_rect.length[(e + 2) % RectEdges]

\* C29: for every parcel whose bounding rectangle has four edges with
\* opposite edges of equal (rounded) length, whenever set_min_rect_edge_types
\* or classify_min_rect_edges assigns a front edge it also assigns a rear
\* edge, so the integer conversion of the rear index in is_corner_plot never
\* fails, and when adjacent edges differ in length the rear edge is the edge
\* opposite the front edge (index front + 2 mod 4).
C29_RearEdgeAssigned ==
    (OppositeEdgesEqual /\ (Classified \/ pc = "ValueError")) =>
        /\ pc # "ValueError"
        /\ edge_types.min_rect_front_edge # NaN =>
              /\ edge_types.min_rect_rear_edge # NaN
              /\ min_rect.length[0] # min_rect.length[1] =>
                    edge_types.min_rect_rear_edge
                        = (edge_types.min_rect_front_edge + 2) % RectEdges

\* an oblong parcel with its front edge on a short side, after the
\* conversion of the rear index in is_corner_plot
C29_Witness ==
    /\ pc = "corner_done"
    /\ OppositeEdgesEqual
    /\ min_rect.length[0] # min_rect.length[1]
    /\ edge_types.min_rect_front_edge = 3
    /\ edge_types.min_rect_rear_edge = 1
    /\ edge_types.is_corner_plot # "nan"
====
